---- MODULE Spec2Model ----
(***************************************************************************)
(* Model of the PackingList Excel ingestion pipeline                       *)
(* (src/utils/excel_reader.py, src/utils/pdf_generator.py).                *)
(*                                                                         *)
(* Text is modelled by TLA+ strings (Len, SubSeq and \o act on them        *)
(* character by character).  Python values are tagged records.  Floats are *)
(* binary floating point with a MantBits-bit significand (53 in CPython)   *)
(* counted in units of 2^-FracBits, rounded half-to-even.                  *)
(***************************************************************************)
EXTENDS Integers, Sequences, FiniteSets, TLC

VARIABLES
    pc,              \* which pipeline stage the run is at
    value,           \* parse_int / parse_float: argument `value`
    default,         \* parse_int / parse_float: argument `default`
    llamada,         \* which coercion entry point was called
    salida,          \* what the call produced: [exc, val]
    archivo,         \* leer_hoja_excel: the workbook, [legible, hojas]
    hoja_nombre,     \* leer_hoja_excel: argument `hoja_nombre` ("" is None)
    buscar_en_filas, \* leer_hoja_excel: argument `buscar_en_filas`
    detener_en,      \* leer_hoja_excel: argument `detener_en`, [none, items]
    tabla,           \* what leer_hoja_excel produced: [exc, header_row, df]
    columnas_config, \* extraer_datos_excel: the Column Alias Map
    extraccion,      \* what extraer_datos_excel produced:
                     \* [exc, registros, columnas_encontradas]
    registros,       \* generar_pdf_hsps: argument `registros`
    pdf,             \* what generar_pdf_hsps computed: [pesos_por_pallet,
                     \* pallets_unicos, total_peso_neto, total_peso_bruto,
                     \* table_data]
    encabezado,      \* normalize_header: argument `h`, a text as code points
    variante,        \* normalize_header: a second header text
    normalizado,     \* what normalize_header returned for the two texts
    calculos_config, \* leer_hoja_calculos: argument `calculos_config`
    resultado,       \* what leer_hoja_calculos produced: [exc, val]
    pesos_por_pallet, \* formatear_lista_pesos: argument `pesos_por_pallet`
    listas,          \* what formatear_lista_pesos produced: [exc, net_weights,
                     \* gross_weights]
    solicitudes,     \* two extraction requests running interleaved
    sesion           \* the wizard of app.py: st.session_state and what the last
                     \* run of the script rendered

coerceVars == <<value, default, llamada, salida>>
sheetVars == <<archivo, hoja_nombre, buscar_en_filas, detener_en, tabla>>
extractVars == <<columnas_config, extraccion>>
pesosVars == <<registros, pdf>>
normVars == <<encabezado, variante, normalizado>>
calcVars == <<calculos_config, resultado>>
formatVars == <<pesos_por_pallet, listas>>
restVars == <<encabezado, variante, normalizado, calculos_config, resultado,
              pesos_por_pallet, listas, solicitudes, sesion>>
vars == <<pc, value, default, llamada, salida,
          archivo, hoja_nombre, buscar_en_filas, detener_en, tabla,
          columnas_config, extraccion, registros, pdf,
          encabezado, variante, normalizado, calculos_config, resultado,
          pesos_por_pallet, listas, solicitudes, sesion>>

(***************************************************************************)
(* Bounds of the model.                                                    *)
(***************************************************************************)
MantBits == 11
FracBits == 2
NCols == 3
MaxRows == 4
MaxWindow == 3
MaxDataRows == 2
MaxRegs == 3

(***************************************************************************)
(* Characters and strings.                                                 *)
(***************************************************************************)
UpperAlpha == "ABCDEFGHIJKLMNOPQRSTUVWXYZ"
LowerAlpha == "abcdefghijklmnopqrstuvwxyz"
DigitChars == "0123456789"

Char(s, i) == SubSeq(s, i, i)

IndexIn(alphabet, c) ==
    IF \E i \in 1..Len(alphabet) : Char(alphabet, i) = c
    THEN CHOOSE i \in 1..Len(alphabet) : Char(alphabet, i) = c
    ELSE 0

UpperSet == { Char(UpperAlpha, i) : i \in 1..Len(UpperAlpha) }
DigitSet == { Char(DigitChars, i) : i \in 1..Len(DigitChars) }
LowerOf == [c \in UpperSet |-> Char(LowerAlpha, IndexIn(UpperAlpha, c))]
DigitOf == [c \in DigitSet |-> IndexIn(DigitChars, c) - 1]

IsDigit(c) == c \in DigitSet
DigitVal(c) == DigitOf[c]

\* str.lower(), one character
LowerChar(c) == IF c \in UpperSet THEN LowerOf[c] ELSE c

RECURSIVE Lower(_)
\* str.lower()
Lower(s) ==
    IF s = "" THEN ""
    ELSE LowerChar(Char(s, 1)) \o Lower(SubSeq(s, 2, Len(s)))

IsSpace(c) == c \in {" ", "\t", "\n"}

RECURSIVE LStrip(_)
LStrip(s) ==
    IF s # "" /\ IsSpace(Char(s, 1)) THEN LStrip(SubSeq(s, 2, Len(s))) ELSE s

RECURSIVE RStrip(_)
RStrip(s) ==
    IF s # "" /\ IsSpace(Char(s, Len(s))) THEN RStrip(SubSeq(s, 1, Len(s) - 1)) ELSE s

\* str.strip()
Strip(s) == RStrip(LStrip(s))

RECURSIVE RemoveChar(_, _)
\* str.replace(c, '') for a one-character c
RemoveChar(s, c) ==
    IF s = "" THEN ""
    ELSE IF Char(s, 1) = c THEN RemoveChar(SubSeq(s, 2, Len(s)), c)
    ELSE Char(s, 1) \o RemoveChar(SubSeq(s, 2, Len(s)), c)

\* `t in s` on Python strings
Contains(s, t) ==
    \E i \in 1..(Len(s) - Len(t) + 1) : SubSeq(s, i, i + Len(t) - 1) = t

(***************************************************************************)
(* Python values.                                                          *)
(***************************************************************************)
PyNone     == [t |-> "none",  s |-> "", v |-> 0]
PyNaN      == [t |-> "nan",   s |-> "", v |-> 0]
PyInf      == [t |-> "inf",   s |-> "", v |-> 1]
PyNegInf   == [t |-> "inf",   s |-> "", v |-> -1]
PyInt(n)   == [t |-> "int",   s |-> "", v |-> n]
PyFloat(u) == [t |-> "float", s |-> "", v |-> u]
PyStr(x)   == [t |-> "str",   s |-> x,  v |-> 0]
\* a list, carrying its str() text and its length
PyList(x, n) == [t |-> "list", s |-> x, v |-> n]

Returned(x) == [exc |-> FALSE, val |-> x]
Raised      == [exc |-> TRUE,  val |-> PyNone]

(***************************************************************************)
(* Floating point.                                                         *)
(***************************************************************************)
RECURSIVE Pow(_, _)
Pow(b, e) == IF e = 0 THEN 1 ELSE b * Pow(b, e - 1)

Scale == Pow(2, FracBits)

Abs(n) == IF n < 0 THEN -n ELSE n
Sign(n) == IF n < 0 THEN -1 ELSE 1

\* n div d rounded half-to-even, n >= 0, d > 0
DivRoundEven(n, d) ==
    LET q == n \div d
        r == n % d
    IN  IF 2 * r > d \/ (2 * r = d /\ q % 2 = 1) THEN q + 1 ELSE q

RECURSIVE ExpOf(_)
\* the least e with n / 2^e < 2^MantBits, n >= 0
ExpOf(n) == IF n < Pow(2, MantBits) THEN 0 ELSE 1 + ExpOf(n \div 2)

\* the nearest float to n units
FRound(n) ==
    LET e == ExpOf(Abs(n))
    IN  Sign(n) * DivRoundEven(Abs(n), Pow(2, e)) * Pow(2, e)

Representable(n) == FRound(n) = n

\* float + float
FAdd(a, b) ==
    IF a.t = "nan" \/ b.t = "nan" THEN PyNaN
    ELSE IF a.t = "inf" /\ b.t = "inf" THEN (IF a.v = b.v THEN a ELSE PyNaN)
    ELSE IF a.t = "inf" THEN a
    ELSE IF b.t = "inf" THEN b
    ELSE PyFloat(FRound(a.v + b.v))

RECURSIVE AllDigits(_)
AllDigits(s) == s = "" \/ (IsDigit(Char(s, 1)) /\ AllDigits(SubSeq(s, 2, Len(s))))

RECURSIVE DecimalValue(_)
\* the integer a digit string denotes
DecimalValue(s) ==
    IF s = "" THEN 0
    ELSE 10 * DecimalValue(SubSeq(s, 1, Len(s) - 1)) + DigitVal(Char(s, Len(s)))

\* float(s) for an unsigned text: digits [. digits] | . digits | inf | infinity | nan
FloatOfUnsigned(s) ==
    LET low == Lower(s)
        dot == IndexIn(s, ".")
        ip  == IF dot = 0 THEN s ELSE SubSeq(s, 1, dot - 1)
        fp  == IF dot = 0 THEN "" ELSE SubSeq(s, dot + 1, Len(s))
    IN  IF low = "nan" THEN Returned(PyNaN)
        ELSE IF low \in {"inf", "infinity"} THEN Returned(PyInf)
        ELSE IF AllDigits(ip) /\ AllDigits(fp) /\ Len(ip) + Len(fp) > 0
        THEN Returned(PyFloat(FRound(
                 DivRoundEven(DecimalValue(ip \o fp) * Scale, Pow(10, Len(fp))))))
        ELSE Raised

Negate(o) ==
    IF o.exc \/ o.val.t = "nan" THEN o
    ELSE Returned([o.val EXCEPT !.v = -o.val.v])

\* float(s) on a str: surrounding whitespace and one sign are accepted
FloatOfStr(s0) ==
    LET s == Strip(s0)
    IN  IF s = "" THEN Raised
        ELSE IF Char(s, 1) = "-" THEN Negate(FloatOfUnsigned(SubSeq(s, 2, Len(s))))
        ELSE IF Char(s, 1) = "+" THEN FloatOfUnsigned(SubSeq(s, 2, Len(s)))
        ELSE FloatOfUnsigned(s)

\* int(x) on a float: truncation; NaN and the infinities raise
IntOfFloat(f) ==
    IF f.t \in {"nan", "inf"} THEN Raised
    ELSE Returned(PyInt(Sign(f.v) * (Abs(f.v) \div Scale)))

\* float(x) on an int
FloatOfInt(n) == PyFloat(FRound(n * Scale))

IsNumber(x) == x.t \in {"int", "float", "nan", "inf"}

\* str(value)
StrOf(x) == IF x.t = "none" THEN "None" ELSE IF x.t = "nan" THEN "nan" ELSE x.s

\* pd.isna(value)
IsNa(x) == x.t \in {"none", "nan"}

\* try: ... except: return default
Try(o, dflt) == IF o.exc THEN Returned(dflt) ELSE o

(***************************************************************************)
(* Safe numeric coercion: parse_int (excel_reader.py), parse_int and       *)
(* parse_float (pdf_generator.py).                                         *)
(***************************************************************************)
\* mutant: the thousands separators are left in the text
CleanNumberTextKeepsCommas(x) == RemoveChar(Strip(StrOf(x)), " ")

\* value -> str(value).strip().replace(',', '').replace(' ', '')
CleanNumberText(x) == RemoveChar(RemoveChar(Strip(StrOf(x)), ","), " ")

\* int(value) for a value that passed isinstance(value, (int, float))
IntOfNumber(x) == IF x.t = "int" THEN Returned(x) ELSE IntOfFloat(x)

\* float(value) for a value that passed isinstance(value, (int, float))
FloatOfNumber(x) == IF x.t = "int" THEN Returned(FloatOfInt(x.v)) ELSE Returned(x)

\* int(float(s))
IntOfFloatOfStr(s) ==
    LET f == FloatOfStr(s)
    IN  IF f.exc THEN Raised ELSE IntOfFloat(f.val)

\* `if pd.isna(value):` raises on an array of more than one element
IsNaTestRaises(x) == x.t = "list" /\ x.v > 1

\* the body of excel_reader.parse_int's try block
ParseIntExcelBody(x, dflt) ==
    IF IsNaTestRaises(x) THEN Raised
    ELSE IF IsNa(x) THEN Returned(dflt)
    ELSE IF IsNumber(x) THEN IntOfNumber(x)
    ELSE LET s == CleanNumberText(x)
         IN  IF s = "" THEN Returned(dflt) ELSE IntOfFloatOfStr(s)

\* the body of pdf_generator.parse_int's try block
ParseIntPdfBody(x, dflt) ==
    IF IsNumber(x) THEN IntOfNumber(x)
    ELSE LET s == CleanNumberText(x)
         IN  IF s = "" THEN Returned(dflt) ELSE IntOfFloatOfStr(s)

\* the body of pdf_generator.parse_float's try block
ParseFloatBody(x, dflt) ==
    IF IsNumber(x) THEN FloatOfNumber(x)
    ELSE LET s == CleanNumberText(x)
         IN  IF s = "" THEN Returned(dflt) ELSE FloatOfStr(s)

\* mutant: no try/except around the body
parse_float_unguarded(x, dflt) == ParseFloatBody(x, dflt)

parse_int_excel(x, dflt) == Try(ParseIntExcelBody(x, dflt), dflt)
parse_int_pdf(x, dflt)   == Try(ParseIntPdfBody(x, dflt), dflt)
parse_float(x, dflt)     == Try(ParseFloatBody(x, dflt), dflt)

(***************************************************************************)
(* Sheet extractor: leer_hoja_excel (excel_reader.py).                     *)
(* A grid is a sequence of rows, a row a sequence of cells, a cell PyNaN   *)
(* (empty) or a PyStr.  A DataFrame is [columns, index, data]: the column  *)
(* labels, the row labels and the rows.                                    *)
(***************************************************************************)
Min(a, b) == IF a < b THEN a ELSE b

RECURSIVE IntToStr(_)
\* str(n) for n >= 0
IntToStr(n) ==
    IF n < 10 THEN Char(DigitChars, n + 1)
    ELSE IntToStr(n \div 10) \o Char(DigitChars, (n % 10) + 1)

NoFrame == [columns |-> <<>>, index |-> <<>>, data |-> <<>>]

\* pd.read_excel(archivo, sheet_name=hoja_nombre, header=None), or the first
\* sheet when no name is given
ReadExcel(file, nombre) ==
    IF ~file.legible THEN Raised
    ELSE IF nombre # ""
    THEN IF \E k \in 1..Len(file.hojas) : file.hojas[k].nombre = nombre
         THEN Returned(file.hojas[CHOOSE k \in 1..Len(file.hojas) :
                                      file.hojas[k].nombre = nombre].grid)
         ELSE Raised
    ELSE Returned(file.hojas[1].grid)

RECURSIVE JoinLower(_, _)
\* ' '.join([str(x).lower() for x in row if not pd.isna(x)]), from cell k on
JoinLower(row, k) ==
    IF k > Len(row) THEN ""
    ELSE IF IsNa(row[k]) THEN JoinLower(row, k + 1)
    ELSE LET rest == JoinLower(row, k + 1)
             here == Lower(StrOf(row[k]))
         IN  IF \A j \in (k + 1)..Len(row) : IsNa(row[j]) THEN here
             ELSE here \o " " \o rest

RowStr(row) == JoinLower(row, 1)

HeaderKeywords == <<"pallet", "lote", "fecha", "cantidad", "cajas", "parte">>

\* any(word in row_str for word in [...])
HasHeaderKeyword(row) ==
    LET row_str == RowStr(row)
    IN  \E k \in 1..Len(HeaderKeywords) : Contains(row_str, HeaderKeywords[k])

RECURSIVE ScanHeader(_, _, _)
\* for idx in range(lim): first row with a keyword, else 0 (indices from 0)
ScanHeader(grid, idx, lim) ==
    IF idx >= lim THEN 0
    ELSE IF HasHeaderKeyword(grid[idx + 1]) THEN idx
    ELSE ScanHeader(grid, idx + 1, lim)

\* mutant: the scan ignores the window and runs over every row
FindHeaderRowNoWindow(grid, window) == ScanHeader(grid, 0, Len(grid))

FindHeaderRow(grid, window) == ScanHeader(grid, 0, Min(window, Len(grid)))

IsBlankHeader(h) == IsNa(h) \/ Strip(StrOf(h)) = ""

RECURSIVE CleanHeadersNoCount(_, _, _, _)
\* mutant: the occurrence counter of a repeated label is never incremented
CleanHeadersNoCount(headers, i, clean, seen) ==
    IF i >= Len(headers) THEN clean
    ELSE LET h == headers[i + 1]
             h_str == Strip(StrOf(h))
         IN  IF IsBlankHeader(h)
             THEN CleanHeadersNoCount(headers, i + 1,
                      Append(clean, "col_vacia_" \o IntToStr(i)), seen)
             ELSE IF h_str \in DOMAIN seen
             THEN CleanHeadersNoCount(headers, i + 1,
                      Append(clean, h_str \o "_" \o IntToStr(seen[h_str] + 1)), seen)
             ELSE CleanHeadersNoCount(headers, i + 1,
                      Append(clean, h_str), seen @@ (h_str :> 0))

RECURSIVE CleanHeadersFrom(_, _, _, _)
\* the loop over enumerate(headers), at column i (from 0), with clean_headers
\* and seen_headers as built so far
CleanHeadersFrom(headers, i, clean, seen) ==
    IF i >= Len(headers) THEN clean
    ELSE LET h == headers[i + 1]
             h_str == Strip(StrOf(h))
         IN  IF IsBlankHeader(h)
             THEN CleanHeadersFrom(headers, i + 1,
                      Append(clean, "col_vacia_" \o IntToStr(i)), seen)
             ELSE IF h_str \in DOMAIN seen
             THEN CleanHeadersFrom(headers, i + 1,
                      Append(clean, h_str \o "_" \o IntToStr(seen[h_str] + 1)),
                      [seen EXCEPT ![h_str] = @ + 1])
             ELSE CleanHeadersFrom(headers, i + 1,
                      Append(clean, h_str), seen @@ (h_str :> 0))

CleanHeaders(headers) == CleanHeadersFrom(headers, 0, <<>>, <<>>)

\* df.iloc[header_row + 1:].reset_index(drop=True)
BelowHeader(grid, header_row, columns) ==
    LET n == Len(grid) - (header_row + 1)
    IN  [columns |-> columns,
         index   |-> [k \in 1..n |-> k - 1],
         data    |-> [k \in 1..n |-> grid[header_row + 1 + k]]]

AllNa(row) == \A k \in 1..Len(row) : IsNa(row[k])

RECURSIVE KeptPositions(_, _)
\* the positions of the rows dropna(how='all') keeps, from position k on
KeptPositions(data, k) ==
    IF k > Len(data) THEN <<>>
    ELSE IF AllNa(data[k]) THEN KeptPositions(data, k + 1)
    ELSE <<k>> \o KeptPositions(data, k + 1)

\* mutant: the entirely empty rows are kept
DropNaAllKeepsEmpty(df) == df

\* df.dropna(how='all'): the rows keep their labels
DropNaAll(df) ==
    LET keep == KeptPositions(df.data, 1)
    IN  [columns |-> df.columns,
         index   |-> [k \in 1..Len(keep) |-> df.index[keep[k]]],
         data    |-> [k \in 1..Len(keep) |-> df.data[keep[k]]]]

\* df.iloc[:n]
ILocHead(df, n) ==
    LET m == Min(n, Len(df.data))
    IN  [columns |-> df.columns,
         index   |-> SubSeq(df.index, 1, m),
         data    |-> SubSeq(df.data, 1, m)]

DefaultStopWords == <<"TOTAL GENERAL", "Total General", "TOTAL">>

\* any(palabra.lower() in row_str for palabra in detener_en)
HasStopWord(row, words) ==
    LET row_str == RowStr(row)
    IN  \E k \in 1..Len(words) : Contains(row_str, Lower(words[k]))

\* for idx, row in df.iterrows(): at the first row with a stop word,
\* df = df.iloc[:idx] with idx the row's label
TruncateAtStop(df, words) ==
    IF \E k \in 1..Len(df.data) : HasStopWord(df.data[k], words)
    THEN LET k == CHOOSE j \in 1..Len(df.data) :
                      /\ HasStopWord(df.data[j], words)
                      /\ \A i \in 1..(j - 1) : ~HasStopWord(df.data[i], words)
         IN  ILocHead(df, df.index[k])
    ELSE df

leer_hoja_excel(file, nombre, window, stop) ==
    LET words == IF stop.none THEN DefaultStopWords ELSE stop.items
        leido == ReadExcel(file, nombre)
    IN  IF leido.exc
        THEN [exc |-> TRUE, header_row |-> 0, df |-> NoFrame]
        ELSE LET grid == leido.val
                 header_row == FindHeaderRow(grid, window)
             IN  IF header_row >= Len(grid)
                 \* df.iloc[header_row] on a sheet with no rows: IndexError
                 THEN [exc |-> TRUE, header_row |-> header_row, df |-> NoFrame]
                 ELSE [exc |-> FALSE,
                       header_row |-> header_row,
                       df |-> TruncateAtStop(
                                 DropNaAll(BelowHeader(grid, header_row,
                                     CleanHeaders(grid[header_row + 1]))),
                                 words)]

(***************************************************************************)
(* Column resolver and record extractor: find_column, extraer_datos_excel  *)
(* (excel_reader.py).  columnas_config is the ordered Column Alias Map, a  *)
(* sequence of [nombre, aliases]; a record and the resolution report are   *)
(* functions over the field names.                                         *)
(***************************************************************************)
\* mutant: only alias.lower() in col_lower
AliasMatchesOneWay(col_lower, alias) == Contains(col_lower, Lower(alias))

\* alias.lower() in col_lower or col_lower in alias.lower()
AliasMatches(col_lower, alias) ==
    \/ Contains(col_lower, Lower(alias))
    \/ Contains(Lower(alias), col_lower)

RECURSIVE FindColumnFrom(_, _, _)
\* the loop over cols_lower.items(), from column k on
FindColumnFrom(columns, aliases, k) ==
    IF k > Len(columns) THEN PyNone
    ELSE IF \E a \in 1..Len(aliases) :
                AliasMatches(Strip(Lower(columns[k])), aliases[a])
    THEN PyStr(columns[k])
    ELSE FindColumnFrom(columns, aliases, k + 1)

find_column(df, aliases) == FindColumnFrom(df.columns, aliases, 1)

ConfigKeys(config) == { config[k].nombre : k \in 1..Len(config) }

AliasesOf(config, nombre) ==
    config[CHOOSE k \in 1..Len(config) : config[k].nombre = nombre].aliases

\* columnas_encontradas[nombre_col] = find_column(df, aliases), every field
ResolveColumns(df, config) ==
    [n \in ConfigKeys(config) |-> find_column(df, AliasesOf(config, n))]

\* columnas_encontradas.get(nombre)
DictGet(d, key) == IF key \in DOMAIN d THEN d[key] ELSE PyNone

\* the truth value of a column label or None
Truthy(x) == x.t = "str" /\ x.s # ""

\* row.get(col) is a Series, not a cell, when the label occurs more than once
GetIsSeries(df, col) ==
    Cardinality({k \in 1..Len(df.columns) : df.columns[k] = col.s}) > 1

\* row.get(col) for a label that occurs once
RowGet(df, row, col) ==
    row[CHOOSE k \in 1..Len(df.columns) : df.columns[k] = col.s]

\* the test `pd.isna(row.get(col_pallet)) and pd.isna(row.get(col_cantidad))`
\* raises when it takes the truth value of a Series
EmptyTestRaises(df, row, col_pallet, col_cantidad) ==
    \/ GetIsSeries(df, col_pallet)
    \/ IsNa(RowGet(df, row, col_pallet)) /\ GetIsSeries(df, col_cantidad)

RowIsSkipped(df, row, found) ==
    LET col_pallet == DictGet(found, "numero_pallet")
        col_cantidad == DictGet(found, "cantidad")
    IN  /\ Truthy(col_pallet) /\ Truthy(col_cantidad)
        /\ IsNa(RowGet(df, row, col_pallet))
        /\ IsNa(RowGet(df, row, col_cantidad))

\* building one field raises on `pd.isna(val) or val == ''` with val a Series
FieldRaises(df, col_excel) == Truthy(col_excel) /\ GetIsSeries(df, col_excel)

\* registro[nombre_col]
FieldValue(df, row, col_excel) ==
    IF Truthy(col_excel)
    THEN LET val == RowGet(df, row, col_excel)
         IN  IF IsNa(val) \/ val = PyStr("") THEN "" ELSE Strip(StrOf(val))
    ELSE ""

\* mutant: a field that did not resolve is left out of the record
BuildRecordOmitsUnresolved(df, row, found) ==
    [n \in {m \in DOMAIN found : Truthy(found[m])} |-> FieldValue(df, row, found[n])]

BuildRecord(df, row, found) ==
    [n \in DOMAIN found |-> FieldValue(df, row, found[n])]

\* one pass of the loop body over a row: "raise", "skip" or "emit"
RowStep(df, row, found) ==
    LET col_pallet == DictGet(found, "numero_pallet")
        col_cantidad == DictGet(found, "cantidad")
    IN  IF Truthy(col_pallet) /\ Truthy(col_cantidad)
           /\ EmptyTestRaises(df, row, col_pallet, col_cantidad)
        THEN "raise"
        ELSE IF RowIsSkipped(df, row, found) THEN "skip"
        ELSE IF \E n \in DOMAIN found : FieldRaises(df, found[n]) THEN "raise"
        ELSE "emit"

RECURSIVE ExtractFrom(_, _, _, _)
\* the loop over df.iterrows(), from row k on, with the records built so far
ExtractFrom(df, found, k, built) ==
    IF k > Len(df.data)
    THEN [exc |-> FALSE, registros |-> built, columnas_encontradas |-> found]
    ELSE LET step == RowStep(df, df.data[k], found)
         IN  IF step = "raise"
             THEN [exc |-> TRUE, registros |-> <<>>, columnas_encontradas |-> found]
             ELSE IF step = "skip" THEN ExtractFrom(df, found, k + 1, built)
             ELSE ExtractFrom(df, found, k + 1,
                      Append(built, BuildRecord(df, df.data[k], found)))

extraer_datos_excel(df, config) ==
    ExtractFrom(df, ResolveColumns(df, config), 1, <<>>)

(***************************************************************************)
(* Per-pallet aggregator: calcular_pesos_por_pallet and the totals of      *)
(* generar_pdf_hsps (pdf_generator.py).  pesos_por_pallet is a dict in     *)
(* insertion order: a sequence of [pallet, peso_neto, peso_bruto].         *)
(***************************************************************************)
\* reg.get(key, dflt)
RegGet(reg, key, dflt) == IF key \in DOMAIN reg THEN PyStr(reg[key]) ELSE dflt

HasPallet(pesos, pallet) == \E k \in 1..Len(pesos) : pesos[k].pallet = pallet

EntryOf(pesos, pallet) ==
    pesos[CHOOSE k \in 1..Len(pesos) : pesos[k].pallet = pallet]

\* mutant: the weights replace the sums (= where the code has +=)
AddWeightsOverwrites(entry, peso_lote, peso_acumulado) ==
    [entry EXCEPT !.peso_neto = peso_lote, !.peso_bruto = peso_acumulado]

\* pesos_por_pallet[pallet]['peso_neto'] += peso_lote, and peso_bruto
AddWeights(entry, peso_lote, peso_acumulado) ==
    [entry EXCEPT !.peso_neto = FAdd(@, peso_lote),
                  !.peso_bruto = FAdd(@, peso_acumulado)]

\* mutant: a record without a pallet is aggregated under the key ""
AddRecordNoSkip(pesos, reg) ==
    LET pallet == RegGet(reg, "numero_pallet", PyStr("")).s
        peso_lote == parse_float(RegGet(reg, "peso_lote", PyInt(0)), PyFloat(0)).val
        peso_acumulado ==
            parse_float(RegGet(reg, "peso_acumulado", PyInt(0)), PyFloat(0)).val
        known == IF HasPallet(pesos, pallet) THEN pesos
                 ELSE Append(pesos, [pallet |-> pallet,
                                     peso_neto |-> PyFloat(0),
                                     peso_bruto |-> PyFloat(0)])
    IN  [k \in 1..Len(known) |->
            IF known[k].pallet = pallet
            THEN AddWeights(known[k], peso_lote, peso_acumulado)
            ELSE known[k]]

\* the loop body for one record
AddRecord(pesos, reg) ==
    LET pallet == RegGet(reg, "numero_pallet", PyStr("")).s
        peso_lote == parse_float(RegGet(reg, "peso_lote", PyInt(0)), PyFloat(0)).val
        peso_acumulado ==
            parse_float(RegGet(reg, "peso_acumulado", PyInt(0)), PyFloat(0)).val
        known == IF HasPallet(pesos, pallet) THEN pesos
                 ELSE Append(pesos, [pallet |-> pallet,
                                     peso_neto |-> PyFloat(0),
                                     peso_bruto |-> PyFloat(0)])
    IN  IF pallet = "" THEN pesos
        ELSE [k \in 1..Len(known) |->
                 IF known[k].pallet = pallet
                 THEN AddWeights(known[k], peso_lote, peso_acumulado)
                 ELSE known[k]]

RECURSIVE CalcularFrom(_, _, _)
CalcularFrom(registros_, k, pesos) ==
    IF k > Len(registros_) THEN pesos
    ELSE CalcularFrom(registros_, k + 1, AddRecord(pesos, registros_[k]))

calcular_pesos_por_pallet(registros_) == CalcularFrom(registros_, 1, <<>>)

\* the sort key: int(x) if x.isdigit() else 0
PalletRank(x) == IF x # "" /\ AllDigits(x) THEN DecimalValue(x) ELSE 0

\* the pallets of the records that have one
PalletSet(registros_) ==
    { RegGet(registros_[k], "numero_pallet", PyStr("")).s : k \in 1..Len(registros_) }
        \ {""}

\* sorted(set(...), key=...): the orders a stable sort of a set can give;
\* keys of equal rank come in the set's iteration order, which is any order
SortedOrders(S) ==
    { o \in [1..Cardinality(S) -> S] :
        /\ \A a, b \in 1..Cardinality(S) : a # b => o[a] # o[b]
        /\ \A a, b \in 1..Cardinality(S) :
               a < b => PalletRank(o[a]) <= PalletRank(o[b]) }

RECURSIVE SumFloats(_, _, _)
\* sum(...): left to right from the start value
SumFloats(fs, k, acc) ==
    IF k > Len(fs) THEN acc ELSE SumFloats(fs, k + 1, FAdd(acc, fs[k]))

\* lines 95 and 232-238 of generar_pdf_hsps, for one iteration order of the set
Totales(registros_, pallets_unicos) ==
    LET pesos == calcular_pesos_por_pallet(registros_)
    IN  [pesos_por_pallet |-> pesos,
         pallets_unicos   |-> pallets_unicos,
         total_peso_neto  |->
             SumFloats([k \in 1..Len(pallets_unicos) |->
                           EntryOf(pesos, pallets_unicos[k]).peso_neto],
                       1, PyFloat(0)),
         total_peso_bruto |->
             SumFloats([k \in 1..Len(pallets_unicos) |->
                           EntryOf(pesos, pallets_unicos[k]).peso_bruto],
                       1, PyFloat(0))]

(***************************************************************************)
(* The product table of generar_pdf_hsps (pdf_generator.py): one row of    *)
(* seven cells per record, below the row of column titles.                 *)
(***************************************************************************)
ProductHeaders ==
    <<"Pallets No.", "Quantity", "Boxes", "Product No.", "Description", "Lot",
      "Manufacturing date">>

\* mutant: the pallet is shown on every row
PalletDisplayAlways(pallet_actual, ultimo_pallet) == pallet_actual

\* pallet_actual if pallet_actual != ultimo_pallet else ''
PalletDisplay(pallet_actual, ultimo_pallet) ==
    IF pallet_actual # ultimo_pallet THEN pallet_actual ELSE ""

\* fila = [pallet_display, cantidad, total_cajas, n_parte, descripcion, ...]
ProductRow(reg, pallet_display, descripcion_producto) ==
    << pallet_display,
       RegGet(reg, "cantidad", PyStr("")).s,
       RegGet(reg, "total_cajas", PyStr("")).s,
       RegGet(reg, "n_parte", PyStr("")).s,
       descripcion_producto,
       RegGet(reg, "n_lote", PyStr("")).s,
       RegGet(reg, "fecha", PyStr("")).s >>

RECURSIVE ProductRowsFrom(_, _, _, _, _)
\* the loop over registros, from record k on, with ultimo_pallet and
\* table_data as they stand
ProductRowsFrom(registros_, k, ultimo_pallet, table_data, descripcion_producto) ==
    IF k > Len(registros_) THEN table_data
    ELSE LET pallet_actual == RegGet(registros_[k], "numero_pallet", PyStr("")).s
             pallet_display == PalletDisplay(pallet_actual, ultimo_pallet)
         IN  ProductRowsFrom(registros_, k + 1, pallet_actual,
                 Append(table_data,
                        ProductRow(registros_[k], pallet_display, descripcion_producto)),
                 descripcion_producto)

\* table_data after the loop; the description is the default 'PRODUCTO'
ProductTable(registros_) ==
    ProductRowsFrom(registros_, 1, "", <<ProductHeaders>>, "PRODUCTO")

(***************************************************************************)
(* Weight lists: formatear_lista_pesos (pdf_generator.py).                 *)
(***************************************************************************)
MaxPallets == 3

\* the characters str.isdigit() accepts and int() does not
SuperscriptDigits == {"²", "³", "¹"}

RECURSIVE IsDigitStr(_)
\* x.isdigit() on a non-empty rest of x
IsDigitStr(x) ==
    x = "" \/ ( /\ (IsDigit(Char(x, 1)) \/ Char(x, 1) \in SuperscriptDigits)
                /\ IsDigitStr(SubSeq(x, 2, Len(x))) )

\* mutant: every key has rank 0
SortKeyAlwaysZero(x) == Returned(0)

\* the sort key: int(x) if x.isdigit() else 0; int() raises ValueError on a
\* digit that is not a decimal digit
SortKey(x) ==
    IF x # "" /\ IsDigitStr(x)
    THEN IF AllDigits(x) THEN Returned(DecimalValue(x)) ELSE Raised
    ELSE Returned(0)

RECURSIVE StableOrder(_, _)
\* sorted(..., key=...) on positions S of a list with keys rank: ascending
\* rank, equal ranks in list order
StableOrder(S, rank) ==
    IF S = {} THEN <<>>
    ELSE LET first == CHOOSE i \in S :
                          \A j \in S : rank[i] < rank[j] \/ (rank[i] = rank[j] /\ i <= j)
         IN  <<first>> \o StableOrder(S \ {first}, rank)

\* two decimal digits
TwoDigits(n) == IF n < 10 THEN "0" \o IntToStr(n) ELSE IntToStr(n)

\* f"{x:.2f}"
Format2(x) ==
    IF x.t = "nan" THEN "nan"
    ELSE IF x.t = "inf" THEN (IF x.v < 0 THEN "-inf" ELSE "inf")
    ELSE LET cents == DivRoundEven(Abs(x.v) * 100, Scale)
         IN  (IF x.v < 0 THEN "-" ELSE "")
             \o IntToStr(cents \div 100) \o "." \o TwoDigits(cents % 100)

formatear_lista_pesos(pesos) ==
    IF \E k \in 1..Len(pesos) : SortKey(pesos[k].pallet).exc
    THEN [exc |-> TRUE, net_weights |-> <<>>, gross_weights |-> <<>>]
    ELSE LET pallets_ordenados ==
                 StableOrder(1..Len(pesos),
                             [k \in 1..Len(pesos) |-> SortKey(pesos[k].pallet).val])
         IN  [exc |-> FALSE,
              net_weights |->
                  [i \in 1..Len(pesos) |-> Format2(pesos[pallets_ordenados[i]].peso_neto)],
              gross_weights |->
                  [i \in 1..Len(pesos) |-> Format2(pesos[pallets_ordenados[i]].peso_bruto)]]

(***************************************************************************)
(* Inputs of the aggregation.                                              *)
(***************************************************************************)
WeightPairs ==
    { <<"2.5", "x">>, <<"3.5", "512">>, <<"512", "0.25">>, <<"0.25", "">> }

Registro(p, w) == [numero_pallet |-> p, peso_lote |-> w[1], peso_acumulado |-> w[2]]

SampleRegistros ==
    { Registro(p, w) : p \in {"1", "2"}, w \in WeightPairs }
    \cup { Registro("", <<"3.5", "512">>), Registro("A", <<"2.5", "x">>),
           [numero_pallet |-> "1"], [peso_lote |-> "2.5"] }

RegistroLists == UNION { [1..n -> SampleRegistros] : n \in 0..MaxRegs }

NoPdf == [pesos_por_pallet |-> <<>>, pallets_unicos |-> <<>>,
          total_peso_neto |-> PyFloat(0), total_peso_bruto |-> PyFloat(0),
          table_data |-> <<>>]

(***************************************************************************)
(* Inputs of leer_hoja_excel.                                              *)
(***************************************************************************)
NaN == PyNaN

\* a row of NCols cells: a, b, then empty cells
Row(a, b) == [k \in 1..NCols |-> IF k = 1 THEN a ELSE IF k = 2 THEN b ELSE NaN]

SampleRows ==
    { Row(NaN, NaN),
      Row(PyStr("Packing List"), NaN),
      Row(PyStr("N Pallet"), PyStr("Cantidad")),
      Row(PyStr("1"), PyStr("5")),
      Row(NaN, PyStr("7")),
      Row(PyStr("Total General"), PyStr("12")) }

Grids == UNION { [1..n -> SampleRows] : n \in 0..MaxRows }

Workbook(grid) == [legible |-> TRUE, hojas |-> << [nombre |-> "ZF", grid |-> grid] >>]

Unreadable == [legible |-> FALSE, hojas |-> <<>>]

UseDefault == [none |-> TRUE, items |-> <<>>]
StopList(items) == [none |-> FALSE, items |-> items]

StopArgs == {UseDefault, StopList(<<"fin", "TOTAL">>)}

HeaderCells ==
    {NaN, PyStr(""), PyStr(" "), PyStr("Lote"), PyStr(" Lote "), PyStr("Lote_1"),
     PyStr("col_vacia_1")}

HeaderGrids == { <<h, Row(PyStr("1"), PyStr("5"))>> : h \in [1..NCols -> HeaderCells] }

NoTabla == [exc |-> FALSE, header_row |-> 0, df |-> NoFrame]

NoExtraccion == [exc |-> FALSE, registros |-> <<>>, columnas_encontradas |-> <<>>]

IdleExtract ==
    /\ columnas_config = <<>>
    /\ extraccion = NoExtraccion

IdlePesos ==
    /\ registros = <<>>
    /\ pdf = NoPdf

IdleCoerce ==
    /\ value = PyNone
    /\ default = PyNone
    /\ llamada = "none"
    /\ salida = Raised

IdleSheet ==
    /\ archivo = Unreadable
    /\ hoja_nombre = ""
    /\ buscar_en_filas = 0
    /\ detener_en = UseDefault
    /\ tabla = NoTabla

IdleNorm ==
    /\ encabezado = <<>>
    /\ variante = <<>>
    /\ normalizado = <<>>

NoResultado == [exc |-> FALSE, val |-> <<>>]

IdleCalc ==
    /\ calculos_config = <<>>
    /\ resultado = NoResultado

NoListas == [exc |-> FALSE, net_weights |-> <<>>, gross_weights |-> <<>>]

IdleFormat ==
    /\ pesos_por_pallet = <<>>
    /\ listas = NoListas

IdleSolicitudes == solicitudes = <<>>

IdleSesion == sesion = <<>>

IdleRest == IdleNorm /\ IdleCalc /\ IdleFormat /\ IdleSolicitudes /\ IdleSesion

\* any sheet, read as the first sheet or by name, with any window
InitSheet ==
    /\ pc = "leer"
    /\ \/ /\ archivo \in {Workbook(g) : g \in Grids}
          /\ hoja_nombre = ""
          /\ buscar_en_filas \in 0..MaxWindow
          /\ detener_en \in StopArgs
       \/ /\ archivo \in {Unreadable, Workbook(<<>>),
                          Workbook(<<Row(PyStr("N Pallet"), PyStr("Cantidad"))>>)}
          /\ hoja_nombre \in {"", "ZF", "Hoja1"}
          /\ buscar_en_filas = 5
          /\ detener_en = UseDefault
    /\ tabla = NoTabla
    /\ IdleCoerce
    /\ IdleExtract
    /\ IdlePesos
    /\ IdleRest

\* any header row, over one data row
InitHeaders ==
    /\ pc = "leer"
    /\ archivo \in {Workbook(g) : g \in HeaderGrids}
    /\ hoja_nombre = ""
    /\ buscar_en_filas = 5
    /\ detener_en = UseDefault
    /\ tabla = NoTabla
    /\ IdleCoerce
    /\ IdleExtract
    /\ IdlePesos
    /\ IdleRest

LeerHojaExcel ==
    /\ pc = "leer"
    /\ pc' = "leido"
    /\ tabla' = leer_hoja_excel(archivo, hoja_nombre, buscar_en_filas, detener_en)
    /\ UNCHANGED <<archivo, hoja_nombre, buscar_en_filas, detener_en>>
    /\ UNCHANGED coerceVars
    /\ UNCHANGED extractVars
    /\ UNCHANGED pesosVars
    /\ UNCHANGED restVars

NextSheet == LeerHojaExcel

SpecSheet == InitSheet /\ [][NextSheet]_vars

SpecHeaders == InitHeaders /\ [][NextSheet]_vars

(***************************************************************************)
(* Inputs of the extraction run.                                           *)
(***************************************************************************)
\* a row of NCols cells: a, b, c, then empty cells
Row3(a, b, c) ==
    [k \in 1..NCols |-> IF k = 1 THEN a ELSE IF k = 2 THEN b
                        ELSE IF k = 3 THEN c ELSE NaN]

ExtractHeaders ==
    { Row3(PyStr("N Pallet"), PyStr("Cantidad"), PyStr("N LOTE")),
      Row3(PyStr("Cantidad"), NaN, PyStr("Pallet")),
      Row3(PyStr("Pallet_1"), PyStr("Pallet"), PyStr("Pallet")),
      Row3(PyStr("Lote cantidad"), PyStr("Lote"), PyStr("Parte")) }

\* the pallet and quantity cells of the data rows
ExtractCells ==
    { <<NaN, NaN>>, <<NaN, PyStr("5")>>, <<PyStr(" 1 "), NaN>>,
      <<PyStr("1"), PyStr(" 5 ")>>, <<PyStr(" "), PyStr(" ")>>,
      <<PyStr(""), PyStr("")>>, <<NaN, PyStr(" ")>> }

ExtractRows == { Row3(c[1], c[2], PyStr("L1")) : c \in ExtractCells }

ExtractGrids ==
    { <<h>> \o d : h \in ExtractHeaders,
                   d \in UNION { [1..n -> ExtractRows] : n \in 0..MaxDataRows } }

Field(nombre, aliases) == [nombre |-> nombre, aliases |-> aliases]

Configs ==
    { << Field("numero_pallet", <<"pallet">>),
         Field("cantidad", <<"qty", "Cantidad">>),
         Field("n_lote", <<"n. de lote", "lote">>) >>,
      << Field("numero_pallet", <<"No. Pallet">>),
         Field("cantidad", <<"piezas">>),
         Field("n_lote", <<>>) >>,
      << Field("n_lote", <<"lote">>),
         Field("numero_pallet", <<"pallet">>) >> }

InitExtract ==
    /\ pc = "leer"
    /\ archivo \in {Workbook(g) : g \in ExtractGrids}
    /\ hoja_nombre = ""
    /\ buscar_en_filas = 5
    /\ detener_en = UseDefault
    /\ tabla = NoTabla
    /\ columnas_config \in Configs
    /\ extraccion = NoExtraccion
    /\ IdleCoerce
    /\ IdlePesos
    /\ IdleRest

ExtraerDatosExcel ==
    /\ pc = "leido"
    /\ ~tabla.exc
    /\ pc' = "extraido"
    /\ extraccion' = extraer_datos_excel(tabla.df, columnas_config)
    /\ UNCHANGED <<columnas_config>>
    /\ UNCHANGED sheetVars
    /\ UNCHANGED coerceVars
    /\ UNCHANGED pesosVars
    /\ UNCHANGED restVars

NextExtract == LeerHojaExcel \/ ExtraerDatosExcel

SpecExtract == InitExtract /\ [][NextExtract]_vars

(***************************************************************************)
(* find_column called on its own, on any table.                            *)
(***************************************************************************)
ResolveLabels ==
    {"Cantidad", "N LOTE", "Lote", " lote ", "lote_cliente", "ab ", " "}

\* a table of up to NCols columns, labels in any order, repeats allowed
ResolveTables ==
    { [columns |-> c, index |-> <<>>, data |-> <<>>] :
        c \in UNION { [1..n -> ResolveLabels] : n \in 0..NCols } }

AliasLists ==
    { <<>>, <<"lote">>, <<"n. de lote", "lote">>, <<"qty", "Cantidad">>,
      <<"cabd">> }

InitResolve ==
    /\ pc = "resolver"
    /\ tabla \in { [exc |-> FALSE, header_row |-> 0, df |-> d] : d \in ResolveTables }
    /\ columnas_config \in { <<Field("campo", a)>> : a \in AliasLists }
    /\ extraccion = NoExtraccion
    /\ archivo = Unreadable
    /\ hoja_nombre = ""
    /\ buscar_en_filas = 0
    /\ detener_en = UseDefault
    /\ IdleCoerce
    /\ IdlePesos
    /\ IdleRest

FindColumn ==
    /\ pc = "resolver"
    /\ pc' = "resuelto"
    /\ llamada' = "find_column"
    /\ salida' = Returned(find_column(tabla.df, columnas_config[1].aliases))
    /\ UNCHANGED <<value, default>>
    /\ UNCHANGED sheetVars
    /\ UNCHANGED extractVars
    /\ UNCHANGED pesosVars
    /\ UNCHANGED restVars

NextResolve == FindColumn

SpecResolve == InitResolve /\ [][NextResolve]_vars


(***************************************************************************)
(* The aggregation as a step.                                              *)
(***************************************************************************)
InitPesos ==
    /\ pc = "generar"
    /\ registros \in RegistroLists
    /\ pdf = NoPdf
    /\ IdleCoerce
    /\ IdleSheet
    /\ IdleExtract
    /\ IdleRest

GenerarPdfHsps ==
    /\ pc = "generar"
    /\ pc' = "generado"
    /\ \E orden \in SortedOrders(PalletSet(registros)) :
           pdf' = Totales(registros, orden)
                      @@ [table_data |-> ProductTable(registros)]
    /\ listas' = formatear_lista_pesos(calcular_pesos_por_pallet(registros))
    /\ UNCHANGED <<registros>>
    /\ UNCHANGED <<encabezado, variante, normalizado, calculos_config, resultado,
                   pesos_por_pallet, solicitudes, sesion>>
    /\ UNCHANGED coerceVars
    /\ UNCHANGED sheetVars
    /\ UNCHANGED extractVars

NextPesos == GenerarPdfHsps

SpecPesos == InitPesos /\ [][NextPesos]_vars

(***************************************************************************)
(* Inputs of the coercion calls.                                           *)
(***************************************************************************)
DigitStrings == {"7", "12", "007", "1234", "2049"}
Separators == {"", ",", " "}

RECURSIVE Decorate(_, _, _)
\* d with f[i] put before its i-th character, i >= k, and f[Len(d)+1] after it
Decorate(d, f, k) ==
    IF k > Len(d) THEN f[k]
    ELSE f[k] \o Char(d, k) \o Decorate(d, f, k + 1)

DecoratedTexts ==
    UNION { { Decorate(d, f, 1) : f \in [1..(Len(d) + 1) -> Separators] } :
            d \in DigitStrings }

BlankTexts == {"", " ", "  ", " , ", "\t"}
NumericTexts == {"3.7", "-5", "+12.50", "1,234.5", "0.1", ".5", "5."}
SpecialTexts == {"nan", "NaN", "inf", "-inf", "Infinity"}
GarbageTexts == {"abc", "1.2.3", "--5", "12kg", "1\t2", "-", ".", "None"}

Values ==
    {PyNone, PyNaN, PyInf, PyNegInf}
    \cup {PyInt(n) : n \in {0, 7, -3}}
    \cup {PyFloat(u) : u \in {0, 10, -7}}
    \cup {PyStr(x) : x \in DecoratedTexts \cup BlankTexts \cup NumericTexts
                           \cup SpecialTexts \cup GarbageTexts}
    \cup {PyList("[1]", 1), PyList("[1, 2]", 2)}

Defaults == {PyInt(0), PyFloat(0), PyNone, PyInt(-1)}

Callers == {"parse_int_excel", "parse_int_pdf", "parse_float"}

(***************************************************************************)
(* The coercion calls as steps.                                            *)
(***************************************************************************)
InitCoerce ==
    /\ pc = "coerce"
    /\ value \in Values
    /\ default \in Defaults
    /\ llamada = "none"
    /\ salida = Raised
    /\ IdleSheet
    /\ IdleExtract
    /\ IdlePesos
    /\ IdleRest

CallParseIntExcel ==
    /\ pc = "coerce"
    /\ llamada = "none"
    /\ llamada' = "parse_int_excel"
    /\ salida' = parse_int_excel(value, default)
    /\ UNCHANGED <<pc, value, default>>
    /\ UNCHANGED sheetVars
    /\ UNCHANGED extractVars
    /\ UNCHANGED pesosVars
    /\ UNCHANGED restVars

CallParseIntPdf ==
    /\ pc = "coerce"
    /\ llamada = "none"
    /\ llamada' = "parse_int_pdf"
    /\ salida' = parse_int_pdf(value, default)
    /\ UNCHANGED <<pc, value, default>>
    /\ UNCHANGED sheetVars
    /\ UNCHANGED extractVars
    /\ UNCHANGED pesosVars
    /\ UNCHANGED restVars

CallParseFloat ==
    /\ pc = "coerce"
    /\ llamada = "none"
    /\ llamada' = "parse_float"
    /\ salida' = parse_float(value, default)
    /\ UNCHANGED <<pc, value, default>>
    /\ UNCHANGED sheetVars
    /\ UNCHANGED extractVars
    /\ UNCHANGED pesosVars
    /\ UNCHANGED restVars

NextCoerce == CallParseIntExcel \/ CallParseIntPdf \/ CallParseFloat

SpecCoerce == InitCoerce /\ [][NextCoerce]_vars

(***************************************************************************)
(* Header normalizer: normalize_header (excel_reader.py).  A header text   *)
(* is a sequence of Unicode code points; a header cell is [na, text], na   *)
(* for a missing cell.                                                     *)
(***************************************************************************)
MaxHeaderLen == 3

\* the code points str.strip() removes
WhiteSpaceCodes == {9, 10, 11, 12, 13, 28, 29, 30, 31, 32, 133, 160}

\* str.lower() on one code point: ASCII and Latin-1 capitals
LowerCode(c) ==
    IF (c >= 65 /\ c <= 90) \/ (c >= 192 /\ c <= 222 /\ c # 215)
    THEN c + 32 ELSE c

LowerCodes(s) == [i \in 1..Len(s) |-> LowerCode(s[i])]

RECURSIVE LStripCodes(_)
LStripCodes(s) ==
    IF s # <<>> /\ s[1] \in WhiteSpaceCodes THEN LStripCodes(Tail(s)) ELSE s

RECURSIVE RStripCodes(_)
RStripCodes(s) ==
    IF s # <<>> /\ s[Len(s)] \in WhiteSpaceCodes
    THEN RStripCodes(SubSeq(s, 1, Len(s) - 1)) ELSE s

StripCodes(s) == RStripCodes(LStripCodes(s))

\* s.replace / re.sub of a character class by one character
ReplaceCodes(s, class, to) ==
    [i \in 1..Len(s) |-> IF s[i] \in class THEN to ELSE s[i]]

\* [a-z0-9]
IsAlnumCode(c) == (c >= 97 /\ c <= 122) \/ (c >= 48 /\ c <= 57)

RECURSIVE CollapseFrom(_, _)
\* re.sub(r'[^a-z0-9]+', '_', s), from position k on
CollapseFrom(s, k) ==
    IF k > Len(s) THEN <<>>
    ELSE IF IsAlnumCode(s[k]) THEN <<s[k]>> \o CollapseFrom(s, k + 1)
    ELSE IF k > 1 /\ ~IsAlnumCode(s[k - 1]) THEN CollapseFrom(s, k + 1)
    ELSE <<95>> \o CollapseFrom(s, k + 1)

\* re.sub(r'^_|_$', '', s)
TrimUnderscore(s) ==
    LET a == IF s # <<>> /\ s[1] = 95 THEN Tail(s) ELSE s
    IN  IF a # <<>> /\ a[Len(a)] = 95 THEN SubSeq(a, 1, Len(a) - 1) ELSE a

normalize_header(cell) ==
    IF cell.na THEN <<>>
    ELSE LET s0 == LowerCodes(StripCodes(cell.text))
             s1 == ReplaceCodes(s0, {241}, 110)
             s2 == ReplaceCodes(s1, {225, 224, 228, 226}, 97)
             s3 == ReplaceCodes(s2, {233, 232, 235, 234}, 101)
             s4 == ReplaceCodes(s3, {237, 236, 239, 238}, 105)
             s5 == ReplaceCodes(s4, {243, 242, 246, 244}, 111)
             s6 == ReplaceCodes(s5, {250, 249, 252, 251}, 117)
         IN  TrimUnderscore(CollapseFrom(s6, 1))

(***************************************************************************)
(* Inputs of normalize_header: a header text and a second text that        *)
(* differs from it in case, in accents or in the separator characters.     *)
(***************************************************************************)
\* a, N, o, space, underscore
HeaderCodes == {97, 78, 111, 32, 95}

HeaderTexts == UNION { [1..n -> HeaderCodes] : n \in 0..MaxHeaderLen }

Variations ==
    {"igual", "mayusculas", "minusculas", "agudo", "grave", "dieresis",
     "circunflejo", "tilde", "punto", "punto_espacio"}

\* the grave form of a, A, o, O; the other accents follow it in Latin-1
GraveOf(c) ==
    CASE c = 97 -> 224 [] c = 65 -> 192 [] c = 111 -> 242 [] c = 79 -> 210

AccentOffset(kind) ==
    CASE kind = "grave" -> 0 [] kind = "agudo" -> 1 [] kind = "circunflejo" -> 2
      [] kind = "tilde" -> 3 [] kind = "dieresis" -> 4

\* the accented form of a vowel or of n, or the letter itself
Accented(c, kind) ==
    IF c \in {97, 65, 111, 79} THEN GraveOf(c) + AccentOffset(kind)
    ELSE IF kind = "tilde" /\ c = 110 THEN 241
    ELSE IF kind = "tilde" /\ c = 78 THEN 209
    ELSE c

\* one character of the text under a variation
VaryCode(c, kind) ==
    CASE kind = "mayusculas" /\ c >= 97 /\ c <= 122 -> <<c - 32>>
      [] kind = "minusculas" -> <<LowerCode(c)>>
      [] kind = "punto" /\ c \in {32, 95} -> <<46>>
      [] kind = "punto_espacio" /\ c \in {32, 95} -> <<46, 32>>
      [] kind \in {"agudo", "grave", "dieresis", "circunflejo", "tilde"} ->
             <<Accented(c, kind)>>
      [] OTHER -> <<c>>

RECURSIVE Vary(_, _)
Vary(s, kind) ==
    IF s = <<>> THEN <<>> ELSE VaryCode(s[1], kind) \o Vary(Tail(s), kind)

HeaderCell(text) == [na |-> FALSE, text |-> text]
MissingCell == [na |-> TRUE, text |-> <<>>]

InitNorm ==
    /\ pc = "normalizar"
    /\ \/ /\ encabezado \in {HeaderCell(t) : t \in HeaderTexts}
          /\ \E k1, k2 \in Variations :
                 variante = HeaderCell(Vary(Vary(encabezado.text, k1), k2))
       \/ /\ encabezado = MissingCell
          /\ variante = MissingCell
    /\ normalizado = <<>>
    /\ IdleCoerce
    /\ IdleSheet
    /\ IdleExtract
    /\ IdlePesos
    /\ IdleCalc
    /\ IdleFormat
    /\ IdleSolicitudes
    /\ IdleSesion

NormalizeHeader ==
    /\ pc = "normalizar"
    /\ pc' = "normalizado"
    /\ normalizado' = <<normalize_header(encabezado), normalize_header(variante)>>
    /\ UNCHANGED <<encabezado, variante>>
    /\ UNCHANGED <<calculos_config, resultado, pesos_por_pallet, listas, solicitudes, sesion>>
    /\ UNCHANGED coerceVars
    /\ UNCHANGED sheetVars
    /\ UNCHANGED extractVars
    /\ UNCHANGED pesosVars

NextNorm == NormalizeHeader

SpecNorm == InitNorm /\ [][NextNorm]_vars

(***************************************************************************)
(* The application's own sheet reader: leer_hoja_zf (app.py).              *)
(***************************************************************************)
ZfHeaderKeywords == <<"pallet", "lote", "fecha", "cantidad", "cajas">>

RECURSIVE ZfScanHeader(_, _, _)
\* for idx in range(min(5, len(df))): first row with a keyword, else 0
ZfScanHeader(grid, idx, lim) ==
    IF idx >= lim THEN 0
    ELSE IF LET row_str == RowStr(grid[idx + 1])
            IN  \E k \in 1..Len(ZfHeaderKeywords) :
                    Contains(row_str, ZfHeaderKeywords[k])
         THEN idx
    ELSE ZfScanHeader(grid, idx + 1, lim)

\* try: read the sheet 'ZF'; except: read the first sheet
ZfRead(file) ==
    IF ReadExcel(file, "ZF").exc THEN ReadExcel(file, "") ELSE ReadExcel(file, "ZF")

leer_hoja_zf(file) ==
    LET leido == ZfRead(file)
    IN  IF leido.exc
        THEN [exc |-> TRUE, header_row |-> 0, df |-> NoFrame]
        ELSE LET grid == leido.val
                 header_row == ZfScanHeader(grid, 0, Min(5, Len(grid)))
             IN  IF header_row >= Len(grid)
                 THEN [exc |-> TRUE, header_row |-> header_row, df |-> NoFrame]
                 ELSE [exc |-> FALSE,
                       header_row |-> header_row,
                       df |-> TruncateAtStop(
                                 DropNaAll(BelowHeader(grid, header_row,
                                     CleanHeaders(grid[header_row + 1]))),
                                 <<"total general">>)]

\* workbooks with a sheet ZF, without one, and with ZF as the second sheet
ZfWorkbooks ==
    {Unreadable}
    \cup { Workbook(g) : g \in Grids }
    \cup { [legible |-> TRUE, hojas |-> << [nombre |-> "Hoja1", grid |-> g] >>] :
             g \in Grids }
    \cup { [legible |-> TRUE,
            hojas |-> << [nombre |-> "Hoja1", grid |-> g],
                         [nombre |-> "ZF",
                          grid |-> << Row(PyStr("N Pallet"), PyStr("Cantidad")),
                                      Row(PyStr("1"), PyStr("5")) >>] >>] :
             g \in Grids }

InitZf ==
    /\ pc = "leer_zf"
    /\ archivo \in ZfWorkbooks
    /\ hoja_nombre = "ZF"
    /\ buscar_en_filas = 5
    /\ detener_en = StopList(<<"total general">>)
    /\ tabla = NoTabla
    /\ IdleCoerce
    /\ IdleExtract
    /\ IdlePesos
    /\ IdleRest

LeerHojaZf ==
    /\ pc = "leer_zf"
    /\ pc' = "leido_zf"
    /\ tabla' = leer_hoja_zf(archivo)
    /\ UNCHANGED <<archivo, hoja_nombre, buscar_en_filas, detener_en>>
    /\ UNCHANGED coerceVars
    /\ UNCHANGED extractVars
    /\ UNCHANGED pesosVars
    /\ UNCHANGED restVars

NextZf == LeerHojaZf

SpecZf == InitZf /\ [][NextZf]_vars

(***************************************************************************)
(* Auxiliary sheet reader: leer_hoja_calculos, buscar_valor_por_keyword    *)
(* (excel_reader.py).  calculos_config is [metodo, peso_neto, peso_bruto,  *)
(* dimensiones, keywords]: the three cell entries are dicts over 'fila'    *)
(* and 'columna' (the empty dict when absent), keywords is the ordered     *)
(* dict of the search, a sequence of [campo, palabras].  The mapping       *)
(* returned is a function from its keys to strings.                        *)
(***************************************************************************)
MaxCalcRows == 2

ResultadoInicial ==
    [k \in {"net_weight", "gross_weight", "dimensions"} |-> ""]

\* d.get(key, 0) on a cell entry
CoordGet(d, key) == IF key \in DOMAIN d THEN d[key] ELSE 0

\* len(df.columns) of a grid read with header=None
GridWidth(grid) == IF grid = <<>> THEN 0 ELSE Len(grid[1])

\* df.iloc[fila, col]: negative positions count from the end, positions
\* outside the frame raise IndexError
ILocCell(grid, fila, col) ==
    LET n == Len(grid)
        w == GridWidth(grid)
    IN  IF fila >= n \/ fila < -n \/ col >= w \/ col < -w THEN Raised
        ELSE Returned(grid[(IF fila < 0 THEN fila + n ELSE fila) + 1]
                          [(IF col < 0 THEN col + w ELSE col) + 1])

\* one `if cfg:` block of the fixed-cell method, on the mapping so far;
\* acc is [val, caught], caught once an exception left the try block
ReadFixedCell(grid, cfg, key, acc) ==
    IF acc.caught \/ DOMAIN cfg = {} THEN acc
    ELSE LET fila == CoordGet(cfg, "fila")
             col == CoordGet(cfg, "columna")
         IN  IF fila < Len(grid) /\ col < GridWidth(grid)
             THEN LET cell == ILocCell(grid, fila, col)
                  IN  IF cell.exc THEN [acc EXCEPT !.caught = TRUE]
                      ELSE [acc EXCEPT !.val =
                               [k \in DOMAIN acc.val \cup {key} |->
                                   IF k = key THEN Strip(StrOf(cell.val))
                                   ELSE acc.val[k]]]
             ELSE acc

\* the cell right of (fila, col) in the same row, when it is not missing
RightNeighbour(grid, fila, col) ==
    IF col + 1 <= Len(grid[fila]) /\ ~IsNa(grid[fila][col + 1])
    THEN Returned(Strip(StrOf(grid[fila][col + 1])))
    ELSE Raised

\* mutant: the cell below is never looked at
BelowNeighbourIgnored(grid, fila, col) == Raised

\* the cell below (fila, col), when it is not missing
BelowNeighbour(grid, fila, col) ==
    IF fila + 1 <= Len(grid) /\ ~IsNa(grid[fila + 1][col])
    THEN Returned(Strip(StrOf(grid[fila + 1][col])))
    ELSE Raised

\* a cell that holds the keyword and has a value attached (positions from 1)
KeywordHit(grid, keyword, fila, col) ==
    /\ ~IsNa(grid[fila][col])
    /\ Contains(Lower(StrOf(grid[fila][col])), Lower(keyword))
    /\ (~RightNeighbour(grid, fila, col).exc \/ ~BelowNeighbour(grid, fila, col).exc)

\* the scan order: rows top down, cells left to right
ScanBefore(f1, c1, f2, c2) == f1 < f2 \/ (f1 = f2 /\ c1 < c2)

RECURSIVE BuscarFrom(_, _, _)
\* the loop over keywords, from keyword k on
BuscarFrom(grid, keywords, k) ==
    IF k > Len(keywords) THEN ""
    ELSE LET hits == { p \in (1..Len(grid)) \X (1..GridWidth(grid)) :
                           KeywordHit(grid, keywords[k], p[1], p[2]) }
         IN  IF hits = {} THEN BuscarFrom(grid, keywords, k + 1)
             ELSE LET p == CHOOSE q \in hits :
                               \A r \in hits :
                                   r = q \/ ScanBefore(q[1], q[2], r[1], r[2])
                      right == RightNeighbour(grid, p[1], p[2])
                  IN  IF ~right.exc THEN right.val
                      ELSE BelowNeighbour(grid, p[1], p[2]).val

buscar_valor_por_keyword(grid, keywords) == BuscarFrom(grid, keywords, 1)

RECURSIVE SearchFrom(_, _, _, _)
\* the loop over keywords.items(), from entry k on; acc is [val, caught].
\* A keyword list that is None cannot be iterated: TypeError
SearchFrom(grid, keywords, k, acc) ==
    IF k > Len(keywords) THEN acc
    ELSE IF keywords[k].palabras = PyNone THEN [acc EXCEPT !.caught = TRUE]
    ELSE LET valor == buscar_valor_por_keyword(grid, keywords[k].palabras)
             campo == keywords[k].campo
         IN  SearchFrom(grid, keywords, k + 1,
                 IF valor # ""
                 THEN [acc EXCEPT !.val =
                          [c \in DOMAIN acc.val \cup {campo} |->
                              IF c = campo THEN valor ELSE acc.val[c]]]
                 ELSE acc)

\* the result is [exc, val, caught]: caught when the except clause ran (it
\* prints a warning), val the mapping returned
leer_hoja_calculos(file, nombre, config) ==
    LET leido == IF nombre = "" THEN Raised ELSE ReadExcel(file, nombre)
        start == [val |-> ResultadoInicial, caught |-> FALSE]
    IN  IF leido.exc
        THEN [exc |-> FALSE, val |-> ResultadoInicial, caught |-> TRUE]
        ELSE IF config.metodo = "celda_fija"
        THEN LET a1 == ReadFixedCell(leido.val, config.peso_neto, "net_weight", start)
                 a2 == ReadFixedCell(leido.val, config.peso_bruto, "gross_weight", a1)
                 a3 == ReadFixedCell(leido.val, config.dimensiones, "dimensions", a2)
             IN  [exc |-> FALSE, val |-> a3.val, caught |-> a3.caught]
        ELSE IF config.metodo = "busqueda"
        THEN LET a == SearchFrom(leido.val, config.keywords, 1, start)
             IN  [exc |-> FALSE, val |-> a.val, caught |-> a.caught]
        ELSE [exc |-> FALSE, val |-> ResultadoInicial, caught |-> FALSE]

(***************************************************************************)
(* Inputs of leer_hoja_calculos.                                           *)
(***************************************************************************)
CalcRows ==
    { <<PyStr("Peso Neto"), PyStr("12.5")>>,
      <<PyStr("Peso Bruto"), PyStr(" ")>>,
      <<PyStr("Dimensiones"), NaN>>,
      <<NaN, PyStr("30")>>,
      <<NaN, NaN>> }

CalcGrids == UNION { [1..n -> CalcRows] : n \in 0..MaxCalcRows }

CalcWorkbooks ==
    {Unreadable}
    \cup { [legible |-> TRUE, hojas |-> << [nombre |-> "Calculos", grid |-> g] >>] :
              g \in CalcGrids }

NoCell == <<>>
Cell(fila, col) == [fila |-> fila, columna |-> col]

\* inside the grid, counted from the end, before its start, beyond its end
CellEntries ==
    { NoCell, Cell(0, 1), Cell(1, 0), Cell(-1, 1),
      Cell(0 - (MaxCalcRows + 2), 0), Cell(MaxCalcRows + 3, 0) }

KeywordEntry(campo, palabras) == [campo |-> campo, palabras |-> palabras]

KeywordMaps ==
    { <<>>,
      << KeywordEntry("net_weight", <<"peso neto", "neto">>),
         KeywordEntry("gross_weight", <<"peso bruto">>),
         KeywordEntry("dimensions", <<"dimensiones", "medidas">>) >>,
      << KeywordEntry("peso_neto", <<"Peso Neto">>) >>,
      << KeywordEntry("net_weight", <<"neto">>),
         KeywordEntry("gross_weight", PyNone) >>,
      << KeywordEntry("dimensions", <<"peso">>) >> }

CalcConfigs ==
    { [metodo |-> "celda_fija", peso_neto |-> a, peso_bruto |-> b,
       dimensiones |-> c, keywords |-> <<>>] : a, b, c \in CellEntries }
    \cup { [metodo |-> m, peso_neto |-> NoCell, peso_bruto |-> NoCell,
           dimensiones |-> NoCell, keywords |-> k] :
              m \in {"busqueda", "otro"}, k \in KeywordMaps }

InitCalc ==
    /\ pc = "calculos"
    /\ archivo \in CalcWorkbooks
    /\ hoja_nombre \in {"Calculos", "Pesos"}
    /\ calculos_config \in CalcConfigs
    /\ resultado = NoResultado
    /\ buscar_en_filas = 0
    /\ detener_en = UseDefault
    /\ tabla = NoTabla
    /\ IdleCoerce
    /\ IdleExtract
    /\ IdlePesos
    /\ IdleNorm
    /\ IdleFormat
    /\ IdleSolicitudes
    /\ IdleSesion

LeerHojaCalculos ==
    /\ pc = "calculos"
    /\ pc' = "calculado"
    /\ resultado' = leer_hoja_calculos(archivo, hoja_nombre, calculos_config)
    /\ UNCHANGED <<calculos_config>>
    /\ UNCHANGED <<encabezado, variante, normalizado, pesos_por_pallet, listas,
                   solicitudes, sesion>>
    /\ UNCHANGED coerceVars
    /\ UNCHANGED sheetVars
    /\ UNCHANGED extractVars
    /\ UNCHANGED pesosVars

NextCalc == LeerHojaCalculos

SpecCalc == InitCalc /\ [][NextCalc]_vars

(***************************************************************************)
(* Inputs of formatear_lista_pesos: per-pallet aggregates in insertion     *)
(* order, the keys any non-empty strings.                                  *)
(***************************************************************************)
PalletKeys == {"A", "b", "0", "2", "10", "²"}

\* 2.5 and 0, 6 and NaN, the smallest fraction and 10.5
AggregateWeights ==
    { <<PyFloat((5 * Scale) \div 2), PyFloat(0)>>,
      <<PyFloat(6 * Scale), PyNaN>>,
      <<PyFloat(1), PyFloat((21 * Scale) \div 2)>> }

Aggregates ==
    { [k \in 1..Len(keys) |->
          [pallet |-> keys[k], peso_neto |-> w[k][1], peso_bruto |-> w[k][2]]] :
        <<keys, w>> \in
            UNION { { s \in [1..n -> PalletKeys] :
                          \A a, b \in 1..n : a # b => s[a] # s[b] }
                    \X [1..n -> AggregateWeights] : n \in 0..MaxPallets } }

InitFormat ==
    /\ pc = "formatear"
    /\ pesos_por_pallet \in Aggregates
    /\ listas = NoListas
    /\ IdleCoerce
    /\ IdleSheet
    /\ IdleExtract
    /\ IdlePesos
    /\ IdleNorm
    /\ IdleCalc
    /\ IdleSolicitudes
    /\ IdleSesion

FormatearListaPesos ==
    /\ pc = "formatear"
    /\ pc' = "formateado"
    /\ listas' = formatear_lista_pesos(pesos_por_pallet)
    /\ UNCHANGED <<pesos_por_pallet>>
    /\ UNCHANGED <<encabezado, variante, normalizado, calculos_config, resultado,
                   solicitudes, sesion>>
    /\ UNCHANGED coerceVars
    /\ UNCHANGED sheetVars
    /\ UNCHANGED extractVars
    /\ UNCHANGED pesosVars

NextFormat == FormatearListaPesos

SpecFormat == InitFormat /\ [][NextFormat]_vars

(***************************************************************************)
(* Two extraction requests running interleaved (excel_reader.py).  Each    *)
(* request owns its workbook, its table and its records.  The objects the  *)
(* two requests have in common are the stop-keyword list their caller      *)
(* passes, the default of the parameter detener_en and the Column Alias    *)
(* Map.  A request takes three steps: leer_hoja_excel, the column          *)
(* resolution of extraer_datos_excel (lines 122-125) and its loop over the *)
(* rows (lines 128-153).                                                   *)
(***************************************************************************)
\* mutant: the stop words found in a row are remembered in the caller's list
StopArgRemembers(obj) ==
    IF obj.none THEN StopList(DefaultStopWords) ELSE StopList(Append(obj.items, "1"))

\* lines 56-57: `detener_en = [...]` binds the local name to a new list; no
\* statement of leer_hoja_excel changes the object the parameter was bound to
StopArgAfterCall(obj) == obj

\* lines 123 and 141: columnas_config is only iterated; find_column (36-41)
\* only reads the aliases
ConfigAfterCall(config) == config

\* lines 36, 130, 136, 143: the table is only read
TableAfterCall(df) == df

\* the object bound to the parameter detener_en in a request's call
StopParameter(objetos, solicitud) ==
    IF solicitud.pasa_detener THEN objetos.detener_en ELSE objetos.defaults

SolicitudGrids ==
    { << Row3(PyStr("N Pallet"), PyStr("Cantidad"), PyStr("N LOTE")),
         Row3(PyStr("1"), PyStr("5"), PyStr("L1")),
         Row3(PyStr("TOTAL"), NaN, NaN),
         Row3(PyStr("2"), PyStr("7"), PyStr("L2")) >>,
      << Row3(PyStr("Cantidad"), NaN, PyStr("Pallet")),
         Row3(PyStr("5"), NaN, PyStr(" 1 ")),
         Row3(PyStr("fin"), NaN, NaN),
         Row3(PyStr("7"), NaN, PyStr("2")) >>,
      << Row3(PyStr("Pallet_1"), PyStr("Pallet"), PyStr("Pallet")),
         Row3(PyStr("1"), PyStr("5"), PyStr("L1")) >>,
      << Row3(PyStr("Lote cantidad"), PyStr("Lote"), PyStr("Parte")),
         Row3(NaN, NaN, PyStr("L1")),
         Row3(PyStr("1"), PyStr("5"), PyStr("L1")) >>,
      << >> }

Solicitud(grid, pasa) ==
    [pc |-> "leer", archivo |-> Workbook(grid), pasa_detener |-> pasa,
     tabla |-> NoTabla, columnas_encontradas |-> <<>>, extraccion |-> NoExtraccion]

SharedObjects ==
    [detener_en : StopArgs, defaults : {UseDefault}, columnas_config : Configs]

InitSolicitudes ==
    /\ pc = "solicitudes"
    /\ \E objetos \in SharedObjects, g1, g2 \in SolicitudGrids, p1, p2 \in BOOLEAN :
           /\ g1 # g2
           /\ solicitudes = [entrada    |-> objetos,
                             compartido |-> objetos,
                             traza      |-> <<>>,
                             req        |-> <<Solicitud(g1, p1), Solicitud(g2, p2)>>]
    /\ IdleCoerce
    /\ IdleSheet
    /\ IdleExtract
    /\ IdlePesos
    /\ IdleNorm
    /\ IdleCalc
    /\ IdleFormat
    /\ IdleSesion

SolicitudUnchanged ==
    /\ UNCHANGED pc
    /\ UNCHANGED coerceVars
    /\ UNCHANGED sheetVars
    /\ UNCHANGED extractVars
    /\ UNCHANGED pesosVars
    /\ UNCHANGED <<encabezado, variante, normalizado, calculos_config, resultado,
                   pesos_por_pallet, listas, sesion>>

\* request i calls leer_hoja_excel on the first sheet of its workbook
SolicitudLeer(i) ==
    LET r == solicitudes.req[i]
        c == solicitudes.compartido
    IN  /\ pc = "solicitudes"
        /\ r.pc = "leer"
        /\ solicitudes' =
               [solicitudes EXCEPT
                   !.req[i].tabla =
                       leer_hoja_excel(r.archivo, "", 5, StopParameter(c, r)),
                   !.req[i].pc = "leido",
                   !.compartido.detener_en =
                       IF r.pasa_detener THEN StopArgAfterCall(@) ELSE @,
                   !.compartido.defaults =
                       IF r.pasa_detener THEN @ ELSE StopArgAfterCall(@),
                   !.traza = Append(@, i)]
        /\ SolicitudUnchanged

\* request i resolves the columns of its table: lines 122-125
SolicitudResolver(i) ==
    LET r == solicitudes.req[i]
        c == solicitudes.compartido
    IN  /\ pc = "solicitudes"
        /\ r.pc = "leido"
        /\ ~r.tabla.exc
        /\ solicitudes' =
               [solicitudes EXCEPT
                   !.req[i].columnas_encontradas =
                       ResolveColumns(r.tabla.df, c.columnas_config),
                   !.req[i].tabla.df = TableAfterCall(@),
                   !.req[i].pc = "resuelto",
                   !.compartido.columnas_config = ConfigAfterCall(@),
                   !.traza = Append(@, i)]
        /\ SolicitudUnchanged

\* request i builds its records: lines 128-153
SolicitudExtraer(i) ==
    LET r == solicitudes.req[i]
    IN  /\ pc = "solicitudes"
        /\ r.pc = "resuelto"
        /\ solicitudes' =
               [solicitudes EXCEPT
                   !.req[i].extraccion =
                       ExtractFrom(r.tabla.df, r.columnas_encontradas, 1, <<>>),
                   !.req[i].tabla.df = TableAfterCall(@),
                   !.req[i].pc = "extraido",
                   !.traza = Append(@, i)]
        /\ SolicitudUnchanged

NextSolicitudes ==
    \E i \in 1..2 : SolicitudLeer(i) \/ SolicitudResolver(i) \/ SolicitudExtraer(i)

SpecSolicitudes == InitSolicitudes /\ [][NextSolicitudes]_vars

(***************************************************************************)
(* Inputs of the header keyword scan: sheets whose header words are in     *)
(* English or in Spanish.                                                  *)
(***************************************************************************)
MaxScanRows == 3

ScanRows ==
    { Row(PyStr("Notes"), NaN),
      Row(PyStr("Date"), PyStr("Quantity")),
      Row(PyStr("Boxes"), NaN),
      Row(PyStr("Part No"), PyStr("Lot")),
      Row(PyStr("Fecha"), PyStr("Cajas")),
      Row(PyStr("1"), PyStr("5")) }

ScanGrids == UNION { [1..n -> ScanRows] : n \in 1..MaxScanRows }

InitScan ==
    /\ pc = "leer"
    /\ archivo \in {Workbook(g) : g \in ScanGrids}
    /\ hoja_nombre = ""
    /\ buscar_en_filas \in 0..MaxWindow
    /\ detener_en = UseDefault
    /\ tabla = NoTabla
    /\ IdleCoerce
    /\ IdleExtract
    /\ IdlePesos
    /\ IdleRest

SpecScan == InitScan /\ [][NextSheet]_vars

(***************************************************************************)
(* The application's record extractor: extraer_datos_excel of app.py, on   *)
(* the fixed alias table COLUMN_ALIASES.                                   *)
(***************************************************************************)
COLUMN_ALIASES ==
    [numero_pallet |-> <<"numero de pallet", "numero_de_pallet", "pallet",
                         "num pallet", "no pallet">>,
     n_lote        |-> <<"n. de lote", "n de lote", "lote", "no lote", "n lote">>,
     fecha         |-> <<"fecha", "date", "manufacturing date">>,
     modelo        |-> <<"modelo", "model">>,
     n_parte       |-> <<"n. parte", "n parte", "parte", "part">>,
     cantidad      |-> <<"cantidad", "quantity", "qty", "piezas">>,
     total_cajas   |-> <<"total de cajas", "total cajas", "cajas", "boxes">>]

\* the seven find_column calls, under the keys of the returned report
AppColumns(df) ==
    [col_pallet   |-> find_column(df, COLUMN_ALIASES.numero_pallet),
     col_lote     |-> find_column(df, COLUMN_ALIASES.n_lote),
     col_fecha    |-> find_column(df, COLUMN_ALIASES.fecha),
     col_modelo   |-> find_column(df, COLUMN_ALIASES.modelo),
     col_parte    |-> find_column(df, COLUMN_ALIASES.n_parte),
     col_cantidad |-> find_column(df, COLUMN_ALIASES.cantidad),
     col_cajas    |-> find_column(df, COLUMN_ALIASES.total_cajas)]

\* row.get(col) is a Series when col is a label that occurs more than once
AppIsSeries(df, col) == col.t = "str" /\ GetIsSeries(df, col)

\* row.get(col, dflt): the default when col is None
AppRowGet(df, row, col, dflt) ==
    IF col.t = "str" THEN RowGet(df, row, col) ELSE dflt

\* `if pd.isna(row.get(col_pallet)) and pd.isna(row.get(col_cantidad))`
\* raises when it takes the truth value of a Series
AppEmptyTestRaises(df, row, cols) ==
    \/ AppIsSeries(df, cols.col_pallet)
    \/ /\ IsNa(AppRowGet(df, row, cols.col_pallet, PyNone))
       /\ AppIsSeries(df, cols.col_cantidad)

AppRowIsSkipped(df, row, cols) ==
    /\ IsNa(AppRowGet(df, row, cols.col_pallet, PyNone))
    /\ IsNa(AppRowGet(df, row, cols.col_cantidad, PyNone))

\* the columns the record is built from, under the record's keys
AppRecordColumns(cols) ==
    [pallet |-> cols.col_pallet, cantidad |-> cols.col_cantidad,
     cajas |-> cols.col_cajas, n_parte |-> cols.col_parte,
     lote |-> cols.col_lote, fecha |-> cols.col_fecha]

\* `pd.isna(val) or val == ''` raises on a Series
AppFieldRaises(df, cols) ==
    \E key \in DOMAIN AppRecordColumns(cols) :
        AppIsSeries(df, AppRecordColumns(cols)[key])

AppFieldValue(df, row, col) ==
    LET val == AppRowGet(df, row, col, PyStr(""))
    IN  IF IsNa(val) \/ val = PyStr("") THEN "" ELSE Strip(StrOf(val))

AppBuildRecord(df, row, cols) ==
    [key \in DOMAIN AppRecordColumns(cols) |->
        AppFieldValue(df, row, AppRecordColumns(cols)[key])]

RECURSIVE AppExtractFrom(_, _, _, _)
\* the loop over df.iterrows(), from row k on
AppExtractFrom(df, cols, k, built) ==
    IF k > Len(df.data)
    THEN [exc |-> FALSE, registros |-> built, columnas_detectadas |-> cols]
    ELSE IF AppEmptyTestRaises(df, df.data[k], cols)
    THEN [exc |-> TRUE, registros |-> <<>>, columnas_detectadas |-> cols]
    ELSE IF AppRowIsSkipped(df, df.data[k], cols)
    THEN AppExtractFrom(df, cols, k + 1, built)
    ELSE IF AppFieldRaises(df, cols)
    THEN [exc |-> TRUE, registros |-> <<>>, columnas_detectadas |-> cols]
    ELSE AppExtractFrom(df, cols, k + 1,
             Append(built, AppBuildRecord(df, df.data[k], cols)))

app_extraer_datos_excel(df) == AppExtractFrom(df, AppColumns(df), 1, <<>>)

(***************************************************************************)
(* The wizard: main of app.py.  One step is one run of the script after a  *)
(* user interaction.  sesion.session_state is st.session_state, a mapping  *)
(* from the keys set so far to their values; sesion.pantalla is what the   *)
(* run rendered; paso and archivo are the step and the file of the run;    *)
(* exitos and guardados record whether some uploaded file parsed and       *)
(* whether the form was submitted after that.                              *)
(***************************************************************************)
\* st.session_state.key = value
SetKey(state, key, valor) ==
    [k \in DOMAIN state \cup {key} |-> IF k = key THEN valor ELSE state[k]]

\* st.session_state.get(key): None when the key was never set
StateGet(state, key) == IF key \in DOMAIN state THEN state[key] ELSE FALSE

NoFile == [legible |-> FALSE, hojas |-> <<>>, vacio |-> TRUE]

Upload(workbook) == workbook @@ [vacio |-> FALSE]

\* mutant: the uploaded flag is set as soon as the sheet was read
SaveUploadFlagFirst(state, extraido) ==
    IF extraido.exc THEN SetKey(state, "uploaded", TRUE)
    ELSE SetKey(SetKey(SetKey(state, "registros", extraido.registros),
                       "columnas_detectadas", extraido.columnas_detectadas),
                "uploaded", TRUE)

\* lines 449-451, reached only when nothing raised before them
SaveUpload(state, extraido) ==
    IF extraido.exc THEN state
    ELSE SetKey(SetKey(SetKey(state, "registros", extraido.registros),
                       "columnas_detectadas", extraido.columnas_detectadas),
                "uploaded", TRUE)

\* step 1, lines 408-457: [state, pantalla]
PasoSubir(state, file) ==
    IF file.vacio THEN [state |-> state, pantalla |-> {"cargador"}]
    ELSE LET tabla_ == leer_hoja_zf(file)
         IN  IF tabla_.exc
             THEN [state |-> state, pantalla |-> {"cargador", "error"}]
             ELSE LET extraido == app_extraer_datos_excel(tabla_.df)
                  IN  [state |-> SaveUpload(state, extraido),
                       pantalla |->
                           IF extraido.exc
                           THEN {"cargador", "hoja", "error"}
                           ELSE {"cargador", "hoja", "registros", "columnas",
                                 "procesado"}]

\* mutant: the form is shown without the test of the uploaded flag
PasoDatosSinGuarda(state, submitted, datos) ==
    [state |-> IF submitted THEN SetKey(state, "datos_comercio", datos) ELSE state,
     pantalla |-> IF submitted THEN {"formulario", "guardado"} ELSE {"formulario"}]

\* step 2, lines 459-545
PasoDatos(state, submitted, datos) ==
    IF ~StateGet(state, "uploaded")
    THEN [state |-> state, pantalla |-> {"aviso_subir"}]
    ELSE [state |-> IF submitted THEN SetKey(state, "datos_comercio", datos)
                    ELSE state,
          pantalla |-> IF submitted THEN {"formulario", "guardado"}
                       ELSE {"formulario"}]

\* step 3, lines 547-640
PasoGenerar(state, generar_btn) ==
    IF ~StateGet(state, "uploaded")
    THEN [state |-> state, pantalla |-> {"aviso_subir"}]
    ELSE IF "datos_comercio" \notin DOMAIN state
    THEN [state |-> state, pantalla |-> {"aviso_datos"}]
    ELSE [state |-> state,
          pantalla |-> IF generar_btn THEN {"resumen", "pdf"} ELSE {"resumen"}]

WizardGrids ==
    SolicitudGrids
    \cup { << Row3(PyStr("Pallet"), PyStr("Qty"), PyStr("Boxes")),
              Row3(PyStr("1"), PyStr("5"), PyStr("2")),
              Row3(PyStr("1"), PyStr("7"), NaN),
              Row3(PyStr("2"), NaN, PyStr("3")) >>,
           << Row3(PyStr("Notes"), NaN, NaN),
              Row3(PyStr("x"), NaN, NaN) >>,
           << Row3(PyStr("Fecha"), PyStr("Cajas"), PyStr("Modelo")),
              Row3(PyStr("2024-01-05"), PyStr("4"), PyStr("M1")) >>,
           << Row3(PyStr("Packing List"), NaN, NaN),
              Row3(PyStr("No Pallet"), PyStr("Piezas"), PyStr("N Parte")),
              Row3(PyStr("3"), PyStr("1,200"), PyStr("P-9")),
              Row3(PyStr("Total General"), PyStr("1,200"), NaN),
              Row3(PyStr("4"), PyStr("8"), PyStr("P-1")) >> }

WizardFiles ==
    {NoFile, Upload(Unreadable)} \cup { Upload(Workbook(g)) : g \in WizardGrids }

TradeData ==
    { [seal_no |-> "N/A", packing_slip_no |-> ""],
      [seal_no |-> "S1", packing_slip_no |-> "7"] }

\* lines 403-404: the first run sets uploaded to False
InitWizard ==
    /\ pc = "asistente"
    /\ sesion = [session_state |-> [uploaded |-> FALSE],
                 paso |-> "inicio", archivo |-> NoFile, pantalla |-> {},
                 exitos |-> FALSE, guardados |-> FALSE]
    /\ IdleCoerce
    /\ IdleSheet
    /\ IdleExtract
    /\ IdlePesos
    /\ IdleNorm
    /\ IdleCalc
    /\ IdleFormat
    /\ IdleSolicitudes

WizardUnchanged ==
    /\ UNCHANGED pc
    /\ UNCHANGED coerceVars
    /\ UNCHANGED sheetVars
    /\ UNCHANGED extractVars
    /\ UNCHANGED pesosVars
    /\ UNCHANGED <<encabezado, variante, normalizado, calculos_config, resultado,
                   pesos_por_pallet, listas, solicitudes>>

\* the file parses: neither the sheet reader nor the extractor raises
Parses(file) ==
    /\ ~file.vacio
    /\ ~leer_hoja_zf(file).exc
    /\ ~app_extraer_datos_excel(leer_hoja_zf(file).df).exc

SubirExcel ==
    /\ pc = "asistente"
    /\ \E file \in WizardFiles :
           LET r == PasoSubir(sesion.session_state, file)
           IN  sesion' = [session_state |-> r.state, paso |-> "subir",
                          archivo |-> file, pantalla |-> r.pantalla,
                          exitos |-> sesion.exitos \/ Parses(file),
                          guardados |-> sesion.guardados]
    /\ WizardUnchanged

DatosComercio ==
    /\ pc = "asistente"
    /\ \E submitted \in BOOLEAN, datos \in TradeData :
           LET r == PasoDatos(sesion.session_state, submitted, datos)
           IN  sesion' = [session_state |-> r.state, paso |-> "datos",
                          archivo |-> NoFile, pantalla |-> r.pantalla,
                          exitos |-> sesion.exitos,
                          guardados |-> sesion.guardados \/ (submitted /\ sesion.exitos)]
    /\ WizardUnchanged

GenerarPdf ==
    /\ pc = "asistente"
    /\ \E generar_btn \in BOOLEAN :
           LET r == PasoGenerar(sesion.session_state, generar_btn)
           IN  sesion' = [session_state |-> r.state, paso |-> "generar",
                          archivo |-> NoFile, pantalla |-> r.pantalla,
                          exitos |-> sesion.exitos,
                          guardados |-> sesion.guardados]
    /\ WizardUnchanged

NextWizard == SubirExcel \/ DatosComercio \/ GenerarPdf

SpecWizard == InitWizard /\ [][NextWizard]_vars

(***************************************************************************)
(* Claims.                                                                 *)
(***************************************************************************)
RECURSIVE OnlyDigits(_)
\* the digits of s, everything else dropped
OnlyDigits(s) ==
    IF s = "" THEN ""
    ELSE (IF IsDigit(Char(s, 1)) THEN Char(s, 1) ELSE "")
         \o OnlyDigits(SubSeq(s, 2, Len(s)))

RECURSIVE OnlyDigitsCommasSpaces(_)
OnlyDigitsCommasSpaces(s) ==
    s = "" \/ ( /\ (IsDigit(Char(s, 1)) \/ Char(s, 1) \in {",", " "})
                /\ OnlyDigitsCommasSpaces(SubSeq(s, 2, Len(s))) )

\* a digit string with thousands-separator commas and/or spaces added
IsDecoratedDigits(x) ==
    x.t = "str" /\ OnlyDigitsCommasSpaces(x.s) /\ OnlyDigits(x.s) # ""

ParseIntCalled == pc = "coerce" /\ llamada \in {"parse_int_excel", "parse_int_pdf"}

ParseIntOf(x) ==
    IF llamada = "parse_int_excel" THEN parse_int_excel(x, default)
    ELSE parse_int_pdf(x, default)

\* C9 (as stated): on a digit string with commas and/or spaces added,
\* parse_int returns the integer the digits denote.
C9_Original ==
    (ParseIntCalled /\ IsDecoratedDigits(value))
        => salida = Returned(PyInt(DecimalValue(OnlyDigits(value.s))))

\* C9 (amended): on a digit string with commas and/or spaces added, parse_int
\* returns what it returns on the digits alone, and that is the integer the
\* digits denote whenever that integer is exactly representable as a float.
C9_ParseIntIgnoresSeparators ==
    (ParseIntCalled /\ IsDecoratedDigits(value))
        => LET d == OnlyDigits(value.s)
           IN  /\ salida = ParseIntOf(PyStr(d))
               /\ Representable(DecimalValue(d) * Scale)
                     => salida = Returned(PyInt(DecimalValue(d)))

C9_Witness ==
    /\ llamada = "parse_int_excel"
    /\ value = PyStr(" 1,234 ")
    /\ salida = Returned(PyInt(1234))

\* the inputs for which the contract promises the default
MustDefault(x) ==
    \/ x.t = "none"
    \/ x.t = "list"
    \/ x.t = "str" /\ Strip(x.s) = ""
    \/ x.t = "str" /\ x.s \in GarbageTexts

\* C10: parse_int and parse_float never raise, and return the supplied
\* default on a null input, on an input that is empty after stripping and on
\* an input that cannot be parsed as a number.
C10_CoercionTotal ==
    (pc = "coerce" /\ llamada \in Callers)
        => /\ ~salida.exc
           /\ MustDefault(value) => salida.val = default

C10_Witness ==
    /\ llamada = "parse_float"
    /\ value = PyStr("abc")
    /\ default = PyInt(-1)
    /\ salida = Returned(PyInt(-1))

\* the grid leer_hoja_excel read, when the read succeeded
GridRead == ReadExcel(archivo, hoja_nombre).val

StopWordsUsed == IF detener_en.none THEN DefaultStopWords ELSE detener_en.items

SheetReturned == pc = "leido" /\ ~tabla.exc

\* the grid positions (from 1) of the non-empty rows below the header whose
\* text contains a stop-keyword
StopPositions ==
    { j \in (tabla.header_row + 2)..Len(GridRead) :
          ~AllNa(GridRead[j]) /\ HasStopWord(GridRead[j], StopWordsUsed) }

\* the grid position of the output row labelled i
GridPosition(i) == tabla.header_row + 2 + i

\* C1: the table leer_hoja_excel returns holds no row at or after the first
\* non-empty row below the header whose text contains a stop-keyword.
C1_NoRowAtOrAfterStop ==
    SheetReturned =>
        \A k \in 1..Len(tabla.df.index) :
            \A j \in StopPositions : GridPosition(tabla.df.index[k]) < j

\* C2: the clean header list has one label per raw column, and the labels
\* are non-empty and pairwise distinct.
C2_HeadersUnique ==
    SheetReturned =>
        LET cols == tabla.df.columns
        IN  /\ Len(cols) = Len(GridRead[tabla.header_row + 1])
            /\ \A a \in 1..Len(cols) : cols[a] # ""
            /\ \A a, b \in 1..Len(cols) : a # b => cols[a] # cols[b]

\* the rows inside the scan window whose text contains a structural keyword
KeywordRowsInWindow ==
    { i \in 0..(Min(buscar_en_filas, Len(GridRead)) - 1) :
          HasHeaderKeyword(GridRead[i + 1]) }

\* C8: the header row is the first row inside the window whose text contains
\* a structural keyword, and row 0 when the window holds none.
C8_HeaderRowSelected ==
    SheetReturned =>
        IF KeywordRowsInWindow = {} THEN tabla.header_row = 0
        ELSE /\ tabla.header_row \in KeywordRowsInWindow
             /\ \A i \in KeywordRowsInWindow : tabla.header_row <= i

C8_Witness ==
    /\ SheetReturned
    /\ GridRead = << Row(PyStr("Packing List"), NaN), Row(NaN, NaN),
                     Row(PyStr("N Pallet"), PyStr("Cantidad")),
                     Row(PyStr("1"), PyStr("5")) >>
    /\ buscar_en_filas = 3
    /\ tabla.header_row = 2
    /\ tabla.df.columns = <<"N Pallet", "Cantidad", "col_vacia_2">>

\* a keyword row lies outside the window and row 0 is selected
C8_WitnessOutside ==
    /\ SheetReturned
    /\ buscar_en_filas = 2
    /\ Len(GridRead) > 2
    /\ HasHeaderKeyword(GridRead[3])
    /\ tabla.header_row = 0


ExtractDone == pc = "extraido"
ExtractReturned == pc = "extraido" /\ ~extraccion.exc

\* a record's field n is present and is the empty string
FieldEmpty(registro, n) == n \in DOMAIN registro /\ registro[n] = ""

\* C3: no record has both its numero_pallet field and its cantidad field
\* equal to the empty string.
C3_NoRecordWithBothEmpty ==
    ExtractReturned =>
        \A k \in 1..Len(extraccion.registros) :
            ~( /\ FieldEmpty(extraccion.registros[k], "numero_pallet")
               /\ FieldEmpty(extraccion.registros[k], "cantidad") )

\* the columns (positions, in table order) whose lower-cased label contains,
\* or is contained in, some lower-cased alias
MatchingColumns(columns, aliases) ==
    { k \in 1..Len(columns) :
        \E a \in 1..Len(aliases) :
            \/ Contains(Lower(columns[k]), Lower(aliases[a]))
            \/ Contains(Lower(aliases[a]), Lower(columns[k])) }

\* the first matching column, as a position, 0 for none
FirstMatching(columns, aliases) ==
    LET m == MatchingColumns(columns, aliases)
    IN  IF m = {} THEN 0 ELSE CHOOSE k \in m : \A j \in m : k <= j

ExpectedColumn(n) ==
    FirstMatching(tabla.df.columns, AliasesOf(columnas_config, n))

ResolveDone == pc = "resuelto"

\* the result the claim describes, for a set of matching positions
FirstOf(columns, m) ==
    IF m = {} THEN PyNone
    ELSE PyStr(columns[CHOOSE k \in m : \A j \in m : k <= j])

MatchingColumnsTrimmed(columns, aliases) ==
    { k \in 1..Len(columns) :
        \E a \in 1..Len(aliases) :
            \/ Contains(Strip(Lower(columns[k])), Lower(aliases[a]))
            \/ Contains(Lower(aliases[a]), Strip(Lower(columns[k]))) }

CellOfField(row, n) ==
    IF n \notin ConfigKeys(columnas_config) \/ ExpectedColumn(n) = 0 THEN NaN
    ELSE row[ExpectedColumn(n)]

Resolved(n) == n \in ConfigKeys(columnas_config) /\ ExpectedColumn(n) # 0

\* the rows the claim says are skipped
SkippedByClaim(row) ==
    /\ Resolved("numero_pallet") /\ Resolved("cantidad")
    /\ IsNa(CellOfField(row, "numero_pallet"))
    /\ IsNa(CellOfField(row, "cantidad"))

ExpectedRecord(row) ==
    [n \in ConfigKeys(columnas_config) |->
        IF IsNa(CellOfField(row, n)) THEN "" ELSE Strip(StrOf(CellOfField(row, n)))]

RECURSIVE ExpectedRecordsFrom(_, _)
ExpectedRecordsFrom(data, k) ==
    IF k > Len(data) THEN <<>>
    ELSE IF SkippedByClaim(data[k]) THEN ExpectedRecordsFrom(data, k + 1)
    ELSE <<ExpectedRecord(data[k])>> \o ExpectedRecordsFrom(data, k + 1)

\* C4: extraer_datos_excel skips exactly the rows whose pallet and quantity
\* columns both resolved and are both empty, and emits one record for every
\* other row, in table order.
C4_InOrderSubsequence ==
    ExtractDone =>
        /\ ~extraccion.exc
        /\ extraccion.registros = ExpectedRecordsFrom(tabla.df.data, 1)

\* C4 where the call returns: the records are the expected ones
C4_WhenReturned ==
    ExtractReturned =>
        extraccion.registros = ExpectedRecordsFrom(tabla.df.data, 1)

\* C5: at most one record per row; the resolution report and every record
\* have exactly the fields of the Column Alias Map, an unresolved field being
\* None in the report and "" in every record.
C5_RecordShape ==
    ExtractReturned =>
        LET keys == ConfigKeys(columnas_config)
        IN  /\ Len(extraccion.registros) <= Len(tabla.df.data)
            /\ DOMAIN extraccion.columnas_encontradas = keys
            /\ \A n \in keys :
                   ~Resolved(n) => extraccion.columnas_encontradas[n] = PyNone
            /\ \A k \in 1..Len(extraccion.registros) :
                   /\ DOMAIN extraccion.registros[k] = keys
                   /\ \A n \in keys :
                          ~Resolved(n) => extraccion.registros[k][n] = ""

C5_Witness ==
    /\ ExtractReturned
    /\ Len(extraccion.registros) = 2
    /\ Len(tabla.df.data) = 2
    /\ "cantidad" \in ConfigKeys(columnas_config)
    /\ ~Resolved("cantidad")
    /\ "cantidad" \in DOMAIN extraccion.registros[1]
    /\ extraccion.registros[1]["cantidad"] = ""
    /\ extraccion.columnas_encontradas["cantidad"] = PyNone


PesosDone == pc = "generado"

\* the records that have a pallet identifier, as positions
WithPallet == { k \in 1..Len(registros) :
                    RegGet(registros[k], "numero_pallet", PyStr("")).s # "" }

CoercedNet(k) == parse_float(RegGet(registros[k], "peso_lote", PyInt(0)), PyFloat(0)).val
CoercedGross(k) ==
    parse_float(RegGet(registros[k], "peso_acumulado", PyInt(0)), PyFloat(0)).val

RECURSIVE SeqOfSet(_)
\* the positions of a set of positions, ascending
SeqOfSet(S) ==
    IF S = {} THEN <<>>
    ELSE LET least == CHOOSE k \in S : \A j \in S : k <= j
         IN  <<least>> \o SeqOfSet(S \ {least})

\* the float sum, in record order, of the coerced weights of the records
\* that have a pallet
DirectNet ==
    LET ks == SeqOfSet(WithPallet)
    IN  SumFloats([i \in 1..Len(ks) |-> CoercedNet(ks[i])], 1, PyFloat(0))

DirectGross ==
    LET ks == SeqOfSet(WithPallet)
    IN  SumFloats([i \in 1..Len(ks) |-> CoercedGross(ks[i])], 1, PyFloat(0))

\* the float sum of the per-pallet sums, in the order of the mapping
SumOverPallets(field) ==
    SumFloats([k \in 1..Len(pdf.pesos_por_pallet) |-> pdf.pesos_por_pallet[k][field]],
              1, PyFloat(0))

\* C6 (as stated): the sum over the pallets of the per-pallet net weight, and
\* the grand total total_peso_neto, equal the sum of the coerced peso_lote of
\* the records that have a pallet; likewise gross weight and peso_acumulado.
C6_Original ==
    PesosDone =>
        /\ pdf.total_peso_neto = DirectNet
        /\ SumOverPallets("peso_neto") = DirectNet
        /\ pdf.total_peso_bruto = DirectGross
        /\ SumOverPallets("peso_bruto") = DirectGross

RECURSIVE ExactSum(_, _)
\* the sum, in exact arithmetic, of the finite values f[k], k in S
ExactSum(f, S) ==
    IF S = {} THEN 0
    ELSE LET k == CHOOSE j \in S : TRUE
         IN  f[k].v + ExactSum(f, S \ {k})

NetValues == [k \in WithPallet |-> CoercedNet(k)]
GrossValues == [k \in WithPallet |-> CoercedGross(k)]

\* no float addition over the values can round: they are finite and the
\* exact sum of every subset of them is a float
AddsExactly(f) ==
    /\ \A k \in DOMAIN f : f[k].t = "float"
    /\ \A S \in SUBSET (DOMAIN f) : Representable(ExactSum(f, S))

\* C6 (amended): when no float addition of the weights involved rounds, the
\* sum over the pallets of the per-pallet net weight, and total_peso_neto,
\* equal the sum of the coerced peso_lote of the records that have a pallet;
\* likewise gross weight and peso_acumulado.
C6_SumsAgreeWhenExact ==
    PesosDone =>
        /\ AddsExactly(NetValues) =>
               /\ pdf.total_peso_neto = PyFloat(ExactSum(NetValues, WithPallet))
               /\ SumOverPallets("peso_neto") = PyFloat(ExactSum(NetValues, WithPallet))
               /\ DirectNet = PyFloat(ExactSum(NetValues, WithPallet))
        /\ AddsExactly(GrossValues) =>
               /\ pdf.total_peso_bruto = PyFloat(ExactSum(GrossValues, WithPallet))
               /\ SumOverPallets("peso_bruto") = PyFloat(ExactSum(GrossValues, WithPallet))
               /\ DirectGross = PyFloat(ExactSum(GrossValues, WithPallet))

C6_Witness ==
    /\ PesosDone
    /\ registros = << Registro("1", <<"2.5", "x">>), Registro("", <<"3.5", "512">>),
                      Registro("1", <<"3.5", "512">>) >>
    /\ AddsExactly(NetValues)
    /\ pdf.total_peso_neto = PyFloat(6 * Scale)

NormDone == pc = "normalizado"

\* the variation table gives the second text from the first
IsVariant ==
    \E k1, k2 \in Variations :
        variante.text = Vary(Vary(encabezado.text, k1), k2)

\* C11: two header texts that differ only in letter case, in the accents of
\* their letters or in the separator characters between the same tokens get
\* the same normalized string.
C11_SameNormalForm ==
    (NormDone /\ IsVariant) => normalizado[1] = normalizado[2]

\* the accents normalize_header maps: acute, grave, diaeresis, circumflex,
\* and the tilde of n
OnlyMappedAccents(s) ==
    \A i \in 1..Len(s) : s[i] \notin {195, 227, 213, 245}

\* C11 without the accents the code leaves out: texts that differ in case,
\* in acute, grave, diaeresis or circumflex accents, in n with tilde, or in
\* separators, get the same normalized string.
C11_MappedAccentsAgree ==
    (NormDone /\ IsVariant /\ OnlyMappedAccents(variante.text))
        => normalizado[1] = normalizado[2]

\* "N o" and "n._ó" both normalize to "n_o"
C11_Agreement ==
    /\ NormDone
    /\ encabezado.text = <<78, 32, 111>>
    /\ variante.text = <<78, 46, 32, 243>>
    /\ normalizado = << <<110, 95, 111>>, <<110, 95, 111>> >>

HasSheet(file, nombre) ==
    file.legible /\ \E k \in 1..Len(file.hojas) : file.hojas[k].nombre = nombre

C12_LeerHojaExcelRaises ==
    (pc = "leido" /\ hoja_nombre # "" /\ ~HasSheet(archivo, hoja_nombre))
        => tabla.exc

C12_LeerHojaExcelRaised ==
    /\ pc = "leido"
    /\ hoja_nombre = "Hoja1"
    /\ HasSheet(archivo, "ZF")
    /\ tabla.exc

CalcDone == pc = "calculado"

\* the grid leer_hoja_calculos loaded, the empty grid when the read failed
CalcGrid ==
    LET leido == ReadExcel(archivo, hoja_nombre)
    IN  IF leido.exc THEN <<>> ELSE leido.val

ResultKeys == {"net_weight", "gross_weight", "dimensions"}

\* C13: when an exception occurred inside leer_hoja_calculos, the call
\* returns without raising and all three fields of the mapping are "".
C13_FailureGivesDefaults ==
    (CalcDone /\ resultado.caught)
        => /\ ~resultado.exc
           /\ \A k \in ResultKeys : k \in DOMAIN resultado.val /\ resultado.val[k] = ""

\* the cell entry that feeds a field of the mapping
EntryOfKey(k) ==
    CASE k = "net_weight" -> calculos_config.peso_neto
      [] k = "gross_weight" -> calculos_config.peso_bruto
      [] k = "dimensions" -> calculos_config.dimensiones

Configured(k) == DOMAIN EntryOfKey(k) # {}

InsideGrid(k) ==
    /\ Configured(k)
    /\ EntryOfKey(k).fila >= 0 /\ EntryOfKey(k).fila < Len(CalcGrid)
    /\ EntryOfKey(k).columna >= 0 /\ EntryOfKey(k).columna < GridWidth(CalcGrid)

\* what the field is when read on its own
ReadAlone(k) ==
    IF InsideGrid(k)
    THEN Strip(StrOf(CalcGrid[EntryOfKey(k).fila + 1][EntryOfKey(k).columna + 1]))
    ELSE ""

FixedCellRun ==
    /\ CalcDone
    /\ calculos_config.metodo = "celda_fija"
    /\ ~ReadExcel(archivo, hoja_nombre).exc

\* C16: in the fixed-cell strategy a field whose coordinates lie outside the
\* grid stays "", and every other field has the value of its own cell.
C16_OutOfRangeStaysDefault ==
    FixedCellRun => \A k \in ResultKeys : resultado.val[k] = ReadAlone(k)

\* C16 for coordinates that are not negative: fields beyond the grid stay ""
\* and the others have the value of their own cell.
C16_NonNegativeCoordinates ==
    (FixedCellRun /\ \A k \in ResultKeys :
                         Configured(k) => /\ EntryOfKey(k).fila >= 0
                                          /\ EntryOfKey(k).columna >= 0)
        => \A k \in ResultKeys : resultado.val[k] = ReadAlone(k)

\* the texts of the non-empty cells of the grid
NonEmptyCellTexts ==
    { Strip(StrOf(CalcGrid[i][j])) :
        <<i, j>> \in { p \in (1..Len(CalcGrid)) \X (1..GridWidth(CalcGrid)) :
                          ~IsNa(CalcGrid[p[1]][p[2]]) } } \ {""}

\* C17: the mapping has exactly the keys net_weight, gross_weight and
\* dimensions, and a field that was not resolved to a non-empty cell value
\* is "".
C17_ThreeKeys ==
    CalcDone =>
        /\ DOMAIN resultado.val = ResultKeys
        /\ \A k \in ResultKeys :
               resultado.val[k] = "" \/ resultado.val[k] \in NonEmptyCellTexts

\* C17, the part that holds: the three keys are always present
C17_KeysPresent ==
    CalcDone => ResultKeys \subseteq DOMAIN resultado.val

FormatDone == pc = "formateado"
FormatReturned == pc = "formateado" /\ ~listas.exc

\* a key that is a plain integer string
IsPlainInt(x) == x # "" /\ AllDigits(x)

OrderRank(x) == IF IsPlainInt(x) THEN DecimalValue(x) ELSE 0

\* the ways to put the pallets of the aggregate in a row
PalletOrders ==
    { o \in [1..Len(pesos_por_pallet) -> 1..Len(pesos_por_pallet)] :
        \A a, b \in 1..Len(pesos_por_pallet) : a # b => o[a] # o[b] }

\* position i of both lists holds the formatted sums of pallet o[i]
Aligned(o) ==
    /\ Len(listas.net_weights) = Len(pesos_por_pallet)
    /\ Len(listas.gross_weights) = Len(pesos_por_pallet)
    /\ \A i \in 1..Len(pesos_por_pallet) :
           /\ listas.net_weights[i] = Format2(pesos_por_pallet[o[i]].peso_neto)
           /\ listas.gross_weights[i] = Format2(pesos_por_pallet[o[i]].peso_bruto)

C15_NeverRaises ==
    /\ FormatDone => ~listas.exc
    /\ pc = "extraido" => ~extraccion.exc
    /\ pc = "calculado" => ~resultado.exc

\* the raw header row of the sheet that was read
RawHeaders == GridRead[tabla.header_row + 1]

\* how often the trimmed label of position p occurs before position p
EarlierOccurrences(headers, p) ==
    Cardinality({ q \in 1..(p - 1) :
                     /\ ~IsBlankHeader(headers[q])
                     /\ Strip(StrOf(headers[q])) = Strip(StrOf(headers[p])) })

\* the label the claim gives position p (column index p - 1)
ExpectedLabel(headers, p) ==
    IF IsNa(headers[p]) \/ Strip(StrOf(headers[p])) = ""
    THEN "col_vacia_" \o IntToStr(p - 1)
    ELSE IF EarlierOccurrences(headers, p) = 0 THEN Strip(StrOf(headers[p]))
    ELSE Strip(StrOf(headers[p])) \o "_" \o IntToStr(EarlierOccurrences(headers, p))

\* C19: a blank or missing cell at column index i becomes "col_vacia_i", the
\* first occurrence of a trimmed label h stays h, and its k-th further
\* occurrence becomes h_k.
C19_LabelByPosition ==
    SheetReturned =>
        tabla.df.columns =
            [p \in 1..Len(RawHeaders) |-> ExpectedLabel(RawHeaders, p)]

C19_Witness ==
    /\ SheetReturned
    /\ RawHeaders = <<PyStr("Lote"), PyStr("Lote"), PyStr("")>>
    /\ tabla.df.columns = <<"Lote", "Lote_1", "col_vacia_2">>

\* a label that occurs three times gets the suffixes _1 and _2
C19_WitnessThird ==
    /\ SheetReturned
    /\ RawHeaders = <<PyStr("Lote"), PyStr(" Lote "), PyStr("Lote")>>
    /\ tabla.df.columns = <<"Lote", "Lote_1", "Lote_2">>


\* the positions of the records of one pallet
RecordsOf(p) == { k \in 1..Len(registros) :
                      RegGet(registros[k], "numero_pallet", PyStr("")).s = p }

\* the float sum, in record order, of the coerced weights of one pallet
PalletNet(p) ==
    LET ks == SeqOfSet(RecordsOf(p))
    IN  SumFloats([i \in 1..Len(ks) |-> CoercedNet(ks[i])], 1, PyFloat(0))

PalletGross(p) ==
    LET ks == SeqOfSet(RecordsOf(p))
    IN  SumFloats([i \in 1..Len(ks) |-> CoercedGross(ks[i])], 1, PyFloat(0))

\* a weight that is missing, empty or not a number
MalformedWeight(k, campo) ==
    \/ campo \notin DOMAIN registros[k]
    \/ registros[k][campo] \in {"", "x"}

\* the aggregate after the first k records
AggregateAfter(k) == calcular_pesos_por_pallet(SubSeq(registros, 1, k))

\* C20: the keys of the mapping built by calcular_pesos_por_pallet are
\* exactly the distinct non-empty numero_pallet values of the records, each
\* once; the peso_neto and peso_bruto of a key are the sums of the coerced
\* peso_lote and peso_acumulado of the records of that pallet, a malformed
\* or missing weight counting as 0.0; and processing one more record leaves
\* the sums of every other pallet as they were.
C20_PerPalletSums ==
    PesosDone =>
        LET pesos == pdf.pesos_por_pallet
        IN  /\ { pesos[k].pallet : k \in 1..Len(pesos) } =
                   { RegGet(registros[k], "numero_pallet", PyStr("")).s :
                         k \in 1..Len(registros) } \ {""}
            /\ \A a, b \in 1..Len(pesos) : pesos[a].pallet = pesos[b].pallet => a = b
            /\ \A k \in 1..Len(pesos) :
                   /\ pesos[k].peso_neto = PalletNet(pesos[k].pallet)
                   /\ pesos[k].peso_bruto = PalletGross(pesos[k].pallet)
            /\ \A k \in 1..Len(registros) :
                   /\ MalformedWeight(k, "peso_lote") => CoercedNet(k) = PyFloat(0)
                   /\ MalformedWeight(k, "peso_acumulado") => CoercedGross(k) = PyFloat(0)
            /\ \A k \in 1..Len(registros) :
                   LET antes == AggregateAfter(k - 1)
                       despues == AggregateAfter(k)
                       pallet == RegGet(registros[k], "numero_pallet", PyStr("")).s
                   IN  \A j \in 1..Len(antes) :
                           antes[j].pallet # pallet =>
                               /\ j <= Len(despues)
                               /\ despues[j] = antes[j]

\* two records of pallet "1" weighing 2.5 and 3.5 give the formatted net
\* weight "6.00"; the first record has a malformed gross weight
C20_Witness ==
    /\ PesosDone
    /\ registros = << Registro("1", <<"2.5", "x">>), Registro("1", <<"3.5", "512">>) >>
    /\ Len(pdf.pesos_por_pallet) = 1
    /\ pdf.pesos_por_pallet[1].pallet = "1"
    /\ pdf.pesos_por_pallet[1].peso_neto = PyFloat(6 * Scale)
    /\ ~listas.exc
    /\ listas.net_weights = <<"6.00">>

\* a record of another pallet in between leaves the sum of pallet "1" alone
C20_WitnessOtherPallet ==
    /\ PesosDone
    /\ registros = << Registro("1", <<"2.5", "x">>), Registro("2", <<"0.25", "">>),
                      Registro("1", <<"3.5", "512">>) >>
    /\ listas.net_weights = <<"6.00", "0.25">>


\* what request i produces when it runs alone on the objects as supplied
AloneTabla(i) ==
    leer_hoja_excel(solicitudes.req[i].archivo, "", 5,
                    StopParameter(solicitudes.entrada, solicitudes.req[i]))

AloneExtraccion(i) ==
    extraer_datos_excel(AloneTabla(i).df, solicitudes.entrada.columnas_config)

EnglishKeywords == <<"pallet", "lot", "date", "quantity", "boxes", "part">>

HasEnglishKeyword(row) ==
    \E k \in 1..Len(EnglishKeywords) : Contains(RowStr(row), EnglishKeywords[k])

\* the rows inside the scan window whose text contains one of them
EnglishRowsInWindow ==
    { i \in 0..(Min(buscar_en_filas, Len(GridRead)) - 1) :
          HasEnglishKeyword(GridRead[i + 1]) }

\* C21: the header scan selects the first row inside the window whose
\* lower-cased text contains one of "pallet", "lot", "date", "quantity",
\* "boxes", "part"; a row whose only header words are "Date", "Quantity" or
\* "Boxes" is selected.
C21_EnglishKeywordSelected ==
    SheetReturned =>
        \A i \in EnglishRowsInWindow :
            (\A j \in EnglishRowsInWindow : i <= j) => tabla.header_row = i

\* what the code does on such a sheet: the row of English header words is
\* passed over and row 0 is kept
C21_EnglishRowPassedOver ==
    /\ SheetReturned
    /\ GridRead = << Row(PyStr("Notes"), NaN), Row(PyStr("Date"), PyStr("Quantity")),
                     Row(PyStr("1"), PyStr("5")) >>
    /\ buscar_en_filas = 3
    /\ tabla.header_row = 0


\* the grid positions (from 1) of the rows strictly below the header that
\* have at least one non-empty cell
NonEmptyBelowHeader ==
    { j \in (tabla.header_row + 2)..Len(GridRead) :
          \E k \in 1..Len(GridRead[j]) : ~IsNa(GridRead[j][k]) }

\* C22: when no row below the header contains a stop-keyword, the table
\* leer_hoja_excel returns consists of exactly the rows strictly below the
\* header row that have a non-empty cell, in their original order: no row at
\* or above the header, no entirely empty row, and no data row is missing.
C22_RowsBelowHeader ==
    (SheetReturned /\ StopPositions = {}) =>
        LET df == tabla.df
        IN  /\ Len(df.data) = Cardinality(NonEmptyBelowHeader)
            /\ Len(df.index) = Len(df.data)
            /\ \A k \in 1..Len(df.data) :
                   /\ GridPosition(df.index[k]) \in NonEmptyBelowHeader
                   /\ df.data[k] = GridRead[GridPosition(df.index[k])]
            /\ \A a, b \in 1..Len(df.data) : a < b => df.index[a] < df.index[b]
            /\ \A j \in NonEmptyBelowHeader :
                   \E k \in 1..Len(df.data) : GridPosition(df.index[k]) = j

\* a title row, the header, a data row, an empty row and a data row: the two
\* data rows come back
C22_Witness ==
    /\ SheetReturned
    /\ StopPositions = {}
    /\ GridRead = << Row(PyStr("Packing List"), NaN),
                     Row(PyStr("N Pallet"), PyStr("Cantidad")),
                     Row(PyStr("1"), PyStr("5")), Row(NaN, NaN) >>
    /\ tabla.header_row = 1
    /\ tabla.df.data = << Row(PyStr("1"), PyStr("5")) >>

\* an empty row between two data rows
C22_WitnessGap ==
    /\ SheetReturned
    /\ GridRead = << Row(PyStr("N Pallet"), PyStr("Cantidad")),
                     Row(PyStr("1"), PyStr("5")), Row(NaN, NaN),
                     Row(NaN, PyStr("7")) >>
    /\ tabla.header_row = 0
    /\ tabla.df.data = << Row(PyStr("1"), PyStr("5")), Row(NaN, PyStr("7")) >>
    /\ tabla.df.index = <<0, 2>>


\* the keyword search ran to its end on a loaded grid
SearchDone ==
    /\ CalcDone
    /\ calculos_config.metodo = "busqueda"
    /\ ~ReadExcel(archivo, hoja_nombre).exc
    /\ \A e \in 1..Len(calculos_config.keywords) :
           calculos_config.keywords[e].palabras # PyNone

HasRight(fila, col) ==
    col < Len(CalcGrid[fila]) /\ ~IsNa(CalcGrid[fila][col + 1])

HasBelow(fila, col) ==
    fila < Len(CalcGrid) /\ ~IsNa(CalcGrid[fila + 1][col])

\* the keyword/cell pairs <<k, fila, col>> that satisfy; with fold the
\* keyword is lower-cased before the test, without it is taken as configured
Satisfying(palabras, fold) ==
    { t \in (1..Len(palabras)) \X (1..Len(CalcGrid)) \X (1..GridWidth(CalcGrid)) :
          /\ ~IsNa(CalcGrid[t[2]][t[3]])
          /\ Contains(Lower(StrOf(CalcGrid[t[2]][t[3]])),
                      IF fold THEN Lower(palabras[t[1]]) ELSE palabras[t[1]])
          /\ (HasRight(t[2], t[3]) \/ HasBelow(t[2], t[3])) }

\* keywords in configured order, rows top down, cells left to right
PairBefore(s, t) ==
    \/ s[1] < t[1]
    \/ s[1] = t[1] /\ s[2] < t[2]
    \/ s[1] = t[1] /\ s[2] = t[2] /\ s[3] < t[3]

\* the value attached to the first satisfying pair, "" when there is none
AttachedValue(palabras, fold) ==
    LET sat == Satisfying(palabras, fold)
    IN  IF sat = {} THEN ""
        ELSE LET t == CHOOSE s \in sat : \A u \in sat : u = s \/ PairBefore(s, u)
             IN  IF HasRight(t[2], t[3])
                 THEN Strip(StrOf(CalcGrid[t[2]][t[3] + 1]))
                 ELSE Strip(StrOf(CalcGrid[t[2] + 1][t[3]]))

\* lines 207-209: the field of an entry holds the value the search returned
\* for the entry's keyword list; "" leaves the field as it was
FieldsHold(fold) ==
    \A e \in 1..Len(calculos_config.keywords) :
        LET campo == calculos_config.keywords[e].campo
            valor == AttachedValue(calculos_config.keywords[e].palabras, fold)
        IN  IF valor # "" THEN /\ campo \in DOMAIN resultado.val
                               /\ resultado.val[campo] = valor
            ELSE IF campo \in ResultKeys THEN resultado.val[campo] = ""
                 ELSE campo \notin DOMAIN resultado.val

\* C23 (as stated): the search returns the value attached to the first
\* satisfying keyword/cell pair, keywords in configured order and cells row
\* by row, left to right; a cell satisfies when its lower-cased text contains
\* the keyword and the cell to its right, else the cell below, is non-empty.
C23_Original == SearchDone => FieldsHold(FALSE)

\* C23 (amended): the same, the keyword being lower-cased as well before the
\* containment test.
C23_FirstSatisfyingPair == SearchDone => FieldsHold(TRUE)

\* the first keyword matches a cell with nothing to its right and the value
\* below it is returned
C23_Witness ==
    /\ SearchDone
    /\ CalcGrid = << <<PyStr("Dimensiones"), NaN>>, <<PyStr("Peso Neto"), PyStr("12.5")>> >>
    /\ calculos_config.keywords = << KeywordEntry("dimensions", <<"peso">>) >>
    /\ resultado.val["dimensions"] = "12.5"

\* a keyword in capitals matches the cell and the value to its right is
\* returned
C23_WitnessCapitals ==
    /\ SearchDone
    /\ CalcGrid = << <<PyStr("Peso Neto"), PyStr("12.5")>> >>
    /\ calculos_config.keywords = << KeywordEntry("peso_neto", <<"Peso Neto">>) >>
    /\ "peso_neto" \in DOMAIN resultado.val
    /\ resultado.val["peso_neto"] = "12.5"


\* the pallet identifier of record i, "" standing in before the first record
PalletOf(i) ==
    IF i = 0 THEN "" ELSE RegGet(registros[i], "numero_pallet", PyStr("")).s

\* the first records of the maximal runs of equal pallet identifiers
RunStarts == { i \in 1..Len(registros) : PalletOf(i) # PalletOf(i - 1) }

\* C26: the product table has one row per record, in record order, below
\* the row of titles; the pallet cell of the row of record i holds the
\* record's pallet identifier when it differs from the identifier of record
\* i-1 ("" before the first record) and is blank otherwise, so a maximal run
\* of records of the same pallet shows the identifier on its first row only.
C26_PalletShownOncePerRun ==
    PesosDone =>
        LET t == pdf.table_data
        IN  /\ Len(t) = Len(registros) + 1
            /\ t[1] = ProductHeaders
            /\ \A i \in 1..Len(registros) :
                   /\ Len(t[i + 1]) = 7
                   /\ t[i + 1][1] = (IF i \in RunStarts THEN PalletOf(i) ELSE "")
                   /\ t[i + 1][2] = RegGet(registros[i], "cantidad", PyStr("")).s
                   /\ t[i + 1][6] = RegGet(registros[i], "n_lote", PyStr("")).s
            /\ \A i \in 1..Len(registros) :
                   (PalletOf(i) # "" /\ t[i + 1][1] = PalletOf(i)) <=>
                       (PalletOf(i) # "" /\ i \in RunStarts)

\* two records of pallet "1", one of pallet "2": the identifiers appear on
\* the first and on the third row
C26_Witness ==
    /\ PesosDone
    /\ registros = << Registro("1", <<"2.5", "x">>), Registro("1", <<"3.5", "512">>),
                      Registro("2", <<"2.5", "x">>) >>
    /\ pdf.table_data[2][1] = "1"
    /\ pdf.table_data[3][1] = ""
    /\ pdf.table_data[4][1] = "2"

\* a pallet that comes back after another one is shown again
C26_WitnessReturn ==
    /\ PesosDone
    /\ registros = << Registro("1", <<"2.5", "x">>), Registro("2", <<"2.5", "x">>),
                      Registro("1", <<"2.5", "x">>) >>
    /\ pdf.table_data[4][1] = "1"


SessionState == sesion.session_state

\* what a file gives when it parses
ParsedFrom(file) == app_extraer_datos_excel(leer_hoja_zf(file).df)

\* the stored records and report are those of one parsed file
StoredFromOneFile ==
    /\ {"registros", "columnas_detectadas"} \subseteq DOMAIN SessionState
    /\ \E file \in WizardFiles :
           /\ Parses(file)
           /\ SessionState["registros"] = ParsedFrom(file).registros
           /\ SessionState["columnas_detectadas"] = ParsedFrom(file).columnas_detectadas

Warnings == {"aviso_subir", "aviso_datos"}

\* C24: in every sequence of wizard steps, the trade-data form is shown only
\* after an upload was parsed successfully; the PDF is generated only when
\* an upload was parsed successfully, its records and report being stored
\* and having been shown, and the trade data has been saved; in every other
\* case steps 2 and 3 show a warning and nothing else, and change nothing.
C24_StepsGuarded ==
    /\ [](/\ "formulario" \in sesion.pantalla => sesion.exitos
          /\ "pdf" \in sesion.pantalla =>
                 /\ sesion.exitos
                 /\ sesion.guardados
                 /\ StoredFromOneFile
                 /\ "datos_comercio" \in DOMAIN SessionState
                 /\ SessionState["datos_comercio"] \in TradeData
          /\ (sesion.paso = "subir" /\ Parses(sesion.archivo)) =>
                 {"registros", "columnas"} \subseteq sesion.pantalla
          /\ (sesion.paso = "datos" /\ ~sesion.exitos) =>
                 sesion.pantalla = {"aviso_subir"}
          /\ (sesion.paso = "generar" /\ ~(sesion.exitos /\ sesion.guardados)) =>
                 sesion.pantalla \in {{"aviso_subir"}, {"aviso_datos"}})
    /\ [][(sesion'.pantalla \cap Warnings # {}) =>
              sesion'.session_state = sesion.session_state]_vars

\* the PDF was generated, after an upload and the form
C24_Witness ==
    /\ pc = "asistente"
    /\ sesion.paso = "generar"
    /\ "pdf" \in sesion.pantalla
    /\ Len(SessionState["registros"]) = 3
    /\ SessionState["datos_comercio"].seal_no = "S1"

\* step 3 before the form was saved only warns
C24_WitnessWarning ==
    /\ pc = "asistente"
    /\ sesion.paso = "generar"
    /\ sesion.exitos
    /\ sesion.pantalla = {"aviso_datos"}

\* C25: an upload step in which reading the sheet or extracting the records
\* raises leaves st.session_state exactly as it was; records, report and
\* uploaded flag are written together only, so whenever uploaded is true the
\* stored records and report are those of one successfully parsed file, and
\* while it is false none of them is stored.
C25_FailedUploadKeepsState ==
    /\ [](IF StateGet(SessionState, "uploaded") THEN StoredFromOneFile
          ELSE DOMAIN SessionState \cap {"registros", "columnas_detectadas"} = {})
    /\ [][(sesion'.paso = "subir" /\ ~Parses(sesion'.archivo)) =>
              /\ sesion'.session_state = sesion.session_state
              /\ (~sesion'.archivo.vacio => "error" \in sesion'.pantalla)]_vars

\* an upload whose extraction raises, after a file that parsed: the stored
\* records are still those of the first file
C25_Witness ==
    /\ pc = "asistente"
    /\ sesion.paso = "subir"
    /\ ~sesion.archivo.vacio
    /\ ~leer_hoja_zf(sesion.archivo).exc
    /\ ~Parses(sesion.archivo)
    /\ sesion.pantalla = {"cargador", "hoja", "error"}
    /\ StateGet(SessionState, "uploaded")
    /\ Len(SessionState["registros"]) = 3

====
